---- MODULE Spec2Model ----
(***************************************************************************)
(* Device-code authenticator and token store of the Graph presence and     *)
(* meeting client (class GraphDeviceCodeAuth, src/unnamed/part_005).       *)
(*                                                                         *)
(* One getValidAccessToken call is an async function; each action below is *)
(* one of its steps between two awaits that touch the disk or the network. *)
(* The three files of the storage directory are the persisted state, the   *)
(* identity provider is the environment: every response it can give is     *)
(* drawn with \E.  Calls on one storage directory are sequential (a new    *)
(* call starts only when the previous one has returned or thrown).         *)
(*                                                                         *)
(* Strings are modelled by tagged records.  Access tokens are JWTs, JSON   *)
(* text and provider codes carry no surrounding whitespace, so the trim of *)
(* writeTextFile / readTextFileIfExists leaves them as they are; a file    *)
(* that is empty or whitespace-only reads as absent.                       *)
(*                                                                         *)
(* Further down: the caller that retries, the authenticator of the         *)
(* calendar client (src/unnamed/part_004), which remembers a started flow  *)
(* in memory, and the paths under which the records are kept.              *)
(***************************************************************************)
EXTENDS Integers, Sequences, FiniteSets, TLC

-----------------------------------------------------------------------------
(* Bounds of the model *)

MaxTicks == 4        \* the clock takes the instants 0, ClockStep, ..., MaxTicks * ClockStep (ms)
ClockStep == 500     \* milliseconds between two observable clock instants
MaxExpAhead == 1     \* JWT exp claims range over SkewSeconds .. SkewSeconds + MaxExpAhead
MaxRT == 2           \* refresh token values the provider can issue: 1 .. MaxRT
MaxFlows == 3        \* device-code flows the provider can issue: 1 .. MaxFlows
MaxLifetime == 1     \* expires_in of a device-code response: 1 .. MaxLifetime seconds

(* Program constants *)

MsPerSecond == 1000      \* nowSeconds: Math.floor(Date.now() / 1000)
SkewSeconds == 60        \* isLikelyValidAccessToken(token, skewSeconds = 60)
DefaultInterval == 5     \* startDeviceCodeLogin: interval default
SlowDownExtra == 5       \* checkDeviceCodeResult: slow_down adds 5 seconds
MaxAttempts == 2         \* getValidAccessToken: for (attempt = 0; attempt < 2; ...)

-----------------------------------------------------------------------------
(* Values *)

None == [k |-> "none"]                       \* undefined / absent file
NaN == [k |-> "nan"]                         \* result of Date parsing of a non-date
Num(n) == [k |-> "num", v |-> n]

\* An access token is a string; only what its middle segment holds matters
\* to the code.
\* payload "nodot":   the string has no "." and so no middle segment;
\* payload "garbled": the middle segment does not decode to JSON;
\* payload "null":    it decodes to the JSON value null;
\* payload "noexp":   it decodes to an object without exp;
\* payload "strexp":  it decodes to an object whose exp is the string of e;
\* payload "exp":     it decodes to an object with the numeric exp e.
Jwt(p, e) == [k |-> "jwt", payload |-> p, exp |-> e]
AccessTokens ==
    {Jwt("garbled", 0)} \cup {Jwt("exp", SkewSeconds + d) : d \in 0..MaxExpAhead}

RT(n) == [k |-> "rt", id |-> n]
RefreshTokens == {RT(n) : n \in 1..MaxRT}

DC(n) == [k |-> "dc", id |-> n]
UC(n) == [k |-> "uc", id |-> n]
Uri(n) == [k |-> "uri", id |-> n]
UriComplete(n) == [k |-> "uric", id |-> n]
Iso(ms) == [k |-> "iso", ms |-> ms]

ClockValues == {t * ClockStep : t \in 0..MaxTicks}


-----------------------------------------------------------------------------
(* Pure helpers *)

\* nowSeconds = Math.floor(Date.now() / 1000)
nowSeconds(ms) == ms \div MsPerSecond

\* token.split("."): the number of segments.
Segments(token) == IF token.payload = "nodot" THEN 1 ELSE 3

\* JSON.parse(base64UrlDecodeToString(parts[1])): the value, or the throw of
\* atob or of JSON.parse.
Threw == [k |-> "threw"]
JsonNull == [k |-> "null"]
JsonString(e) == [k |-> "jstr", v |-> e]
JsonObject(exp) == [k |-> "object", exp |-> exp]
DecodePayload(token) ==
    IF token.payload = "garbled" THEN Threw
    ELSE IF token.payload = "null" THEN JsonNull
    ELSE IF token.payload = "noexp" THEN JsonObject(None)
    ELSE IF token.payload = "strexp" THEN JsonObject(JsonString(token.exp))
    ELSE JsonObject(Num(token.exp))

\* Mutant: exp is taken whatever its type.
tryGetJwtExpSeconds_Untyped(token) ==
    IF Segments(token) < 2 THEN None
    ELSE LET payload == DecodePayload(token) IN
         IF payload = Threw THEN None
         ELSE IF payload.k # "object" THEN None
         ELSE IF payload.exp = None THEN None
         ELSE Num(payload.exp.v)

\* tryGetJwtExpSeconds: the numeric exp of the payload, or undefined; a
\* throw of the decoding is caught.
tryGetJwtExpSeconds(token) ==
    IF Segments(token) < 2 THEN None
    ELSE LET payload == DecodePayload(token) IN
         IF payload = Threw THEN None
         ELSE IF payload.k # "object" THEN None
         ELSE IF payload.exp.k = "num" THEN payload.exp
         ELSE None

\* Mutant: the clock is compared in milliseconds, not seconds.
isLikelyValidAccessToken_RawMs(token, ms) ==
    LET exp == tryGetJwtExpSeconds(token) IN
    IF exp = None THEN FALSE
    ELSE IF exp.v = 0 THEN FALSE
    ELSE exp.v > ms + SkewSeconds

\* isLikelyValidAccessToken(token, skewSeconds = 60) evaluated at clock ms.
isLikelyValidAccessToken(token, ms) ==
    LET exp == tryGetJwtExpSeconds(token) IN
    IF exp = None THEN FALSE
    ELSE IF exp.v = 0 THEN FALSE
    ELSE exp.v > nowSeconds(ms) + SkewSeconds

\* Files.  A file is missing (None) or holds a text; Blank is a text of
\* whitespace only.  writeTextFile stores value.trim() + "\n", and
\* readTextFileIfExists returns the trimmed content, undefined when the file
\* is missing or the trimmed content is empty.
Blank == [k |-> "blank"]
File(text) == [k |-> "file", text |-> text]
\* The empty string, and a string v with whitespace before or after it.
Empty == [k |-> "empty"]
Padded(v) == [k |-> "padded", v |-> v]
\* Something at the path that readFile, writeFile and unlink all reject (a
\* directory, say).
Unreadable == [k |-> "unreadable"]

\* String.prototype.trim: whitespace at both ends is removed; of a string of
\* whitespace only nothing is left.
trim(text) ==
    IF text.k = "padded" THEN text.v
    ELSE IF text = Blank THEN Empty
    ELSE text

\* Mutant: the content is returned as it is, untrimmed.
readTextFileIfExists_Raw(file) ==
    IF file = None \/ file = Unreadable THEN None
    ELSE file.text

\* readTextFileIfExists: the trimmed content; undefined when readFile throws
\* or nothing is left after trimming.
readTextFileIfExists(file) ==
    IF file = None \/ file = Unreadable THEN None
    ELSE LET trimmed == trim(file.text) IN
         IF trimmed = Empty THEN None ELSE trimmed

\* writeTextFile: value.trim() + "\n".  The text of a file is held without
\* that final newline, which every reader trims away.
writeTextFile(value) == File(trim(value))

\* deleteFileIfExists: unlink, whose failure is ignored.
deleteFileIfExists(file) == IF file = Unreadable THEN file ELSE None

\* The pending-flow record is JSON text.
Json(val) == [k |-> "json", val |-> val]     \* JSON.stringify(state, null, 2)
Garbage == [k |-> "garbage"]                 \* text that JSON.parse rejects
JsonParse(text) == IF text.k = "json" THEN text.val ELSE None

\* DeviceCodeState
DeviceCodeState(dc, uc, uri, uric, interval, expiresAt) ==
    [deviceCode |-> dc, userCode |-> uc, verificationUri |-> uri,
     verificationUriComplete |-> uric, intervalSeconds |-> interval,
     expiresAt |-> expiresAt]
\* what JSON.parse("{}") yields when read as a DeviceCodeState
EmptyObjectState == DeviceCodeState(None, None, None, None, None, None)

\* new Date(ms).toISOString() and new Date(iso).getTime()
toISOString(ms) == Iso(ms)
DateGetTime(x) == IF x.k = "iso" THEN Num(x.ms) ELSE NaN

\* Mutant: a record is taken as expired at the very instant of its expiry.
isDeviceCodeStateExpired_Inclusive(st, ms) ==
    LET t == DateGetTime(st.expiresAt) IN
    IF t = NaN THEN FALSE ELSE t.v <= ms

\* Mutant: the expiry in milliseconds is compared with the clock in seconds.
isDeviceCodeStateExpired_Seconds(st, ms) ==
    LET t == DateGetTime(st.expiresAt) IN
    IF t = NaN THEN FALSE ELSE t.v < nowSeconds(ms)

\* isDeviceCodeStateExpired: new Date(state.expiresAt).getTime() < Date.now()
isDeviceCodeStateExpired(st, ms) ==
    LET t == DateGetTime(st.expiresAt) IN
    IF t = NaN THEN FALSE ELSE t.v < ms

\* Results of getValidAccessToken
NoResult == [kind |-> "none"]
Returned(token) == [kind |-> "token", token |-> token]
Thrown(msg) == [kind |-> "error", msg |-> msg]
\* Mutant: the error carries no complete verification URI.
DeviceCodeAuthRequiredError_DropsComplete(st) ==
    [kind |-> "authRequired", userCode |-> st.userCode,
     verificationUri |-> st.verificationUri,
     verificationUriComplete |-> None,
     expiresAt |-> st.expiresAt]

\* throwDeviceCodeAuthRequired(state): DeviceCodeAuthRequiredError
DeviceCodeAuthRequiredError(st) ==
    [kind |-> "authRequired", userCode |-> st.userCode,
     verificationUri |-> st.verificationUri,
     verificationUriComplete |-> st.verificationUriComplete,
     expiresAt |-> st.expiresAt]

\* The configuration of the instance: this.clientId.
VARIABLE clientId
\* The client id of a configured application.
ClientId == [k |-> "str", s |-> "client-id"]

\* Requests sent to the identity provider
DeviceCodeRequest ==
    [ep |-> "devicecode", grant |-> "none", arg |-> None, client_id |-> clientId]
PollRequest(dc) ==
    [ep |-> "token", grant |-> "device_code", arg |-> dc, client_id |-> clientId]
RefreshRequest(rt) ==
    [ep |-> "token", grant |-> "refresh_token", arg |-> rt, client_id |-> clientId]

\* Responses of the token endpoint
Str(s) == [k |-> "str", s |-> s]
ErrorCodes == {Str("authorization_pending"), Str("slow_down"), Str("expired_token"),
               Str("authorization_declined"), Str("invalid_grant")}
TokenResponse(ok, at, rt, err) ==
    [ok |-> ok, access_token |-> at, refresh_token |-> rt, error |-> err]
\* A body without an access token carries no refresh token; a body with an
\* access token carries no error or (to show that the error field is then
\* ignored) the error authorization_pending.
TokenResponses(rts) ==
    {TokenResponse(ok, None, None, err) : ok \in BOOLEAN, err \in ErrorCodes \cup {None}}
        \cup {TokenResponse(ok, at, rt, err) :
                ok \in BOOLEAN, at \in AccessTokens, rt \in rts \cup {None},
                err \in {None, Str("authorization_pending")}}

\* Mutant: slow_down does not lengthen the interval.
PendingStatus_NoExtra(err, st) ==
    [status |-> "pending",
     nextPollInSeconds |->
        IF st.intervalSeconds = None THEN NaN ELSE st.intervalSeconds]

\* checkDeviceCodeResult, the mapping of a response without a usable success
\* (part_005 lines 1554-1562).
PendingStatus(err, st) ==
    [status |-> "pending",
     nextPollInSeconds |->
        IF st.intervalSeconds = None THEN NaN
        ELSE IF err = Str("slow_down") THEN Num(st.intervalSeconds.v + SlowDownExtra)
        ELSE st.intervalSeconds]
\* Mutant: slow_down is not recognised as a pending answer.
CheckFailure_NoSlowDown(resp, st) ==
    LET err == IF resp.error = None THEN Str("unknown_error") ELSE resp.error IN
    IF err = Str("authorization_pending") THEN PendingStatus(err, st)
    ELSE IF err = Str("expired_token") THEN [status |-> "expired", error |-> err]
    ELSE IF err = Str("authorization_declined") THEN [status |-> "declined", error |-> err]
    ELSE [status |-> "error", error |-> err]


CheckFailure(resp, st) ==
    LET err == IF resp.error = None THEN Str("unknown_error") ELSE resp.error IN
    IF err = Str("authorization_pending") \/ err = Str("slow_down")
        THEN PendingStatus(err, st)
    ELSE IF err = Str("expired_token") THEN [status |-> "expired", error |-> err]
    ELSE IF err = Str("authorization_declined") THEN [status |-> "declined", error |-> err]
    ELSE [status |-> "error", error |-> err]

\* checkDeviceCodeResult line 1544: response.ok && data.access_token
PollSucceeded(resp) == resp.ok /\ resp.access_token # None

\* checkDeviceCodeResult lines 1544-1562: the result for a parsed response.
checkDeviceCodeResult(resp, st) ==
    IF PollSucceeded(resp)
      THEN [status |-> "completed", accessToken |-> resp.access_token]
      ELSE CheckFailure(resp, st)

\* refreshOnce line 1625: !response.ok || !data.access_token
RefreshRejected(resp) == ~resp.ok \/ resp.access_token = None

\* Mutant: the refresh token of the response is dropped.
RefreshedPair_KeepsOld(resp, refreshToken) ==
    [accessToken |-> resp.access_token, refreshToken |-> refreshToken]

\* refreshOnce line 1629: the pair it returns
RefreshedPair(resp, refreshToken) ==
    [accessToken |-> resp.access_token,
     refreshToken |-> IF resp.refresh_token # None THEN resp.refresh_token
                      ELSE refreshToken]

\* refreshOnce line 1626: the message of the error it throws
RefreshErrorText(resp) ==
    IF resp.error # None THEN resp.error ELSE Str("status")

\* Mutant: the second attempt reuses the refresh token of the first.
NextRefreshToken_KeepsOld(pair, cur) == cur

\* getValidAccessToken line 1730: currentRefresh = refreshed.refreshToken ?? currentRefresh
NextRefreshToken(pair, cur) ==
    IF pair.refreshToken # None THEN pair.refreshToken ELSE cur

\* Bodies of a non-success response:
\*   GraphErrorBody(m):  { "error": { "message": m } }
\*   OAuthErrorBody(c):  { "error": c, "error_description": ... }, c a string
\*   EmptyBody:          {}
\*   Garbage:            text that is not JSON
GraphErrorBody(m) == [k |-> "graphError", message |-> m]
OAuthErrorBody(c) == [k |-> "oauthError", error |-> c]
EmptyBody == [k |-> "emptyObject"]
ErrorBodies ==
    {GraphErrorBody(Str("The request is malformed")),
     OAuthErrorBody(Str("invalid_client")), EmptyBody, Garbage}
ErrorResponse(status, body) == [ok |-> FALSE, status |-> status, body |-> body]
ErrorResponses == {ErrorResponse(400, b) : b \in ErrorBodies}
OkResponse(body) == [ok |-> TRUE, status |-> 200, body |-> body]

\* JSON.stringify of a string, and `${response.status} ${response.statusText}`
Stringified(str) == [k |-> "quoted", s |-> str.s]
StatusLine(status) == [k |-> "statusLine", status |-> status]

\* Mutant: the body of the response is not looked at.
toErrorMessage_StatusOnly(response) == StatusLine(response.status)

\* toErrorMessage: error.message, else the serialised error, else the status
\* line; a body that is not JSON throws and is caught.
toErrorMessage(response) ==
    IF response.body.k = "graphError" THEN response.body.message
    ELSE IF response.body.k = "oauthError" THEN Stringified(response.body.error)
    ELSE StatusLine(response.status)

\* Responses of the device-authorization endpoint
StartResponse(n, uric, interval, lifetime) ==
    [device_code |-> DC(n), user_code |-> UC(n), verification_uri |-> Uri(n),
     verification_uri_complete |-> uric, interval |-> interval,
     expires_in |-> lifetime]
IntervalInputs == {None, Num(0), Num(2)}

\* Mutant: the interval of the response is taken whenever it is a number.
IntervalOf_AnyNumber(data) ==
    IF data.interval.k = "num" THEN data.interval ELSE Num(DefaultInterval)

\* startDeviceCodeLogin line 1504:
\* typeof data.interval === "number" && data.interval > 0 ? data.interval : 5
IntervalOf(data) ==
    IF data.interval.k = "num" /\ data.interval.v > 0 THEN data.interval
    ELSE Num(DefaultInterval)
\* startDeviceCodeLogin lines 1505-1512: the state built from a response
\* Mutant: the device code is stored as the user code.
BuildState_LeakDeviceCode(data, ms) ==
    DeviceCodeState(data.device_code, data.device_code, data.verification_uri,
                    data.verification_uri_complete, IntervalOf(data),
                    toISOString(ms + data.expires_in * MsPerSecond))


BuildState(data, ms) ==
    DeviceCodeState(data.device_code, data.user_code, data.verification_uri,
                    data.verification_uri_complete, IntervalOf(data),
                    toISOString(ms + data.expires_in * MsPerSecond))

-----------------------------------------------------------------------------
(* State *)

VARIABLES
    now,            \* Date.now(), in milliseconds
    accessFile,     \* <dir>/.access_token
    refreshFile,    \* <dir>/.refresh_token
    stateFile,      \* <dir>/.device_code_state
    nextRT,         \* provider: id of the next refresh token it issues
    nextFlow,       \* provider: id of the next device-code flow it issues
    pc,             \* position of the running getValidAccessToken call
    tokens,         \* local: const tokens = await this.readTokensFromDisk()
    currentRefresh, \* local: let currentRefresh
    attempt,        \* local: loop counter of the refresh loop
    refreshData,    \* local of refreshOnce: the parsed token response
    refreshed,      \* local: const refreshed = await this.refreshOnce(...)
    lastError,      \* local: let lastError
    state,          \* local: let state = await this.readDeviceCodeState()
    data,           \* local of checkDeviceCodeResult: the parsed token response
    startData,      \* local of startDeviceCodeLogin: the parsed response
    newState,       \* local of startDeviceCodeLogin: const state
    result,         \* what the call returns or throws
    sent,           \* history: requests sent by the running call
    pre,            \* history: the three files when the running call began
    rotated,        \* history: refresh tokens replaced on disk by a rotated one
    crashed,        \* history: what the process held when it last died mid-call
    probe,          \* input and output of a pure function under examination
    startResponse   \* local of startDeviceCodeLogin: const response = await fetch

files == <<accessFile, refreshFile, stateFile>>
provider == <<nextRT, nextFlow>>
locals == <<tokens, currentRefresh, attempt, refreshData, refreshed, lastError,
            state, data, startData, newState, startResponse>>
config == <<clientId>>
\* The caller: what its last call gave it to act on, a
\* DeviceCodeAuthRequiredError it caught or a completed login; NoResult when
\* that call ended otherwise.
VARIABLE lastOutcome
caller == <<lastOutcome>>
\* The authenticator of the calendar client (class GraphDeviceCodeAuth of
\* src/unnamed/part_004): the instance remembers the flow it last started.
VARIABLES
    lastDeviceCode, \* this.lastDeviceCode
    entry,          \* the entry point of the calendar authenticator that is running
    twin            \* history: what a newly constructed instance would have returned
calendar == <<lastDeviceCode, entry, twin>>
\* The file system under two authenticators, each with its own
\* this.tokenStorage.
VARIABLES
    disk,           \* the file at each path, None where there is none
    tokenStorage,   \* per authenticator: this.tokenStorage
    access          \* history: the last storage operation and the paths it opened
storage == <<disk, tokenStorage, access>>
\* What no step of getValidAccessToken touches.
aside == <<probe, config, caller, calendar, storage>>
vars == <<now, accessFile, refreshFile, stateFile, nextRT, nextFlow, pc, tokens,
          currentRefresh, attempt, refreshData, refreshed, lastError, state, data,
          startData, newState, result, sent, pre, rotated, crashed, probe,
          startResponse, clientId, lastOutcome, lastDeviceCode, entry, twin,
          disk, tokenStorage, access>>

NoTokens == [accessToken |-> None, refreshToken |-> None]
Snapshot == [access |-> accessFile, refresh |-> refreshFile, state |-> stateFile]
NoSnapshot == [access |-> None, refresh |-> None, state |-> None]
NoCrash == [token |-> None, written |-> FALSE]
NoProbe == [fn |-> "none"]

\* Pending-flow records that an earlier process may have left on disk: flow 1
\* of the provider, started at some earlier instant.
InitialStates ==
    {DeviceCodeState(DC(1), UC(1), Uri(1), None, Num(DefaultInterval), Iso(ms)) :
        ms \in {t * MsPerSecond : t \in 0..MaxLifetime}}

NoEntry == [fn |-> "none"]
\* The calendar client is newly constructed.
NoCalendar ==
    /\ lastDeviceCode = None
    /\ entry = NoEntry
    /\ twin = NoResult

\* The paths of the storage directory are those of the variables accessFile,
\* refreshFile and stateFile; no other file system is looked at.
NoAccess == [op |-> "none", self |-> "none", opened |-> {}]
NoStorage ==
    /\ disk = <<>>
    /\ tokenStorage = <<>>
    /\ access = NoAccess

\* The locals of a call that is not running.
NoCall ==
    /\ tokens = NoTokens
    /\ currentRefresh = None
    /\ attempt = 0
    /\ refreshData = None
    /\ refreshed = NoTokens
    /\ lastError = None
    /\ state = None
    /\ data = None
    /\ startData = None
    /\ startResponse = None
    /\ newState = None
    /\ result = NoResult
    /\ sent = <<>>
    /\ pre = NoSnapshot

\* The storage directory holds whatever earlier processes (or the user) left
\* there; the instance itself keeps nothing in memory between calls.
Init ==
    /\ now = 0
    /\ accessFile \in {None} \cup {File(t) : t \in AccessTokens}
    /\ refreshFile \in {None, File(RT(1))}
    /\ stateFile \in {None, File(Blank), File(Garbage), File(Json(EmptyObjectState))}
                        \cup {File(Json(st)) : st \in InitialStates}
    /\ nextRT = 2
    /\ nextFlow = 2
    /\ pc = "idle"
    /\ NoCall
    /\ rotated = {}
    /\ crashed = NoCrash
    /\ probe = NoProbe
    /\ clientId = ClientId
    /\ lastOutcome = NoResult
    /\ NoCalendar
    /\ NoStorage

-----------------------------------------------------------------------------
(* getValidAccessToken, step by step *)

\* readTokensFromDisk
readTokensFromDisk ==
    [accessToken |-> readTextFileIfExists(accessFile),
     refreshToken |-> readTextFileIfExists(refreshFile)]

\* line 1712: tokens.accessToken && isLikelyValidAccessToken(tokens.accessToken)
StoredTokenUsable(pair, ms) ==
    pair.accessToken # None /\ isLikelyValidAccessToken(pair.accessToken, ms)

\* Mutant: a stored refresh token is used before the stored access token is
\* looked at.
AfterRead_RefreshFirst(pair, ms) ==
    IF pair.refreshToken # None
      THEN [pc |-> "refresh", result |-> NoResult,
            currentRefresh |-> pair.refreshToken]
    ELSE IF StoredTokenUsable(pair, ms)
      THEN [pc |-> "returned", result |-> Returned(pair.accessToken),
            currentRefresh |-> None]
    ELSE [pc |-> "readState", result |-> NoResult, currentRefresh |-> None]

\* lines 1712-1721: where the call goes once the token files are read.
AfterRead(pair, ms) ==
    IF StoredTokenUsable(pair, ms)
      THEN [pc |-> "returned", result |-> Returned(pair.accessToken),
            currentRefresh |-> None]
    ELSE IF pair.refreshToken # None
      THEN [pc |-> "refresh", result |-> NoResult,
            currentRefresh |-> pair.refreshToken]
    ELSE [pc |-> "readState", result |-> NoResult, currentRefresh |-> None]

\* Step 1 (lines 1711-1721): a new call begins, reads both token files and
\* returns the stored access token when it is usable.
GetValidAccessToken ==
    /\ pc = "idle"
    /\ LET t == readTokensFromDisk
           a == AfterRead(t, now) IN
       /\ tokens' = t
       /\ pc' = a.pc
       /\ result' = a.result
       /\ currentRefresh' = a.currentRefresh
    /\ pre' = Snapshot
    /\ UNCHANGED <<now, crashed, aside, startResponse, files, provider, attempt, refreshData, refreshed,
                   lastError, state, data, startData, newState, sent, rotated>>

\* Refresh tokens the provider can put into a refresh response: the one it
\* was sent, or a new one.
IssuableRefreshTokens(cur) ==
    {cur} \cup (IF nextRT <= MaxRT THEN {RT(nextRT)} ELSE {})
\* Refresh tokens the provider can put into a device-code completion.
FreshRefreshTokens == IF nextRT <= MaxRT THEN {RT(nextRT)} ELSE {}

ProviderIssued(rt) ==
    nextRT' = IF rt = RT(nextRT) THEN nextRT + 1 ELSE nextRT

\* Step 2 (lines 1724-1727, 1731-1734 and refreshOnce): one refresh request.
\* A rejected fetch, an unparsable body and a rejected grant all end in the
\* catch block, which leaves the loop.
RefreshOnce ==
    /\ pc = "refresh"
    /\ sent' = Append(sent, RefreshRequest(currentRefresh))
    /\ \/ /\ lastError' = Str("fetch failed")
          /\ pc' = "clearTokens"
          /\ UNCHANGED <<refreshData, refreshed, nextRT>>
       \/ \E resp \in TokenResponses(IssuableRefreshTokens(currentRefresh)) :
            /\ ProviderIssued(resp.refresh_token)
            /\ refreshData' = resp
            /\ IF RefreshRejected(resp)
                 THEN /\ lastError' = RefreshErrorText(resp)
                      /\ pc' = "clearTokens"
                      /\ UNCHANGED refreshed
                 ELSE /\ refreshed' = RefreshedPair(resp, currentRefresh)
                      /\ pc' = "persistAccess"
                      /\ UNCHANGED lastError
    /\ UNCHANGED <<now, crashed, aside, startResponse, files, nextFlow, tokens, currentRefresh, attempt, state,
                   data, startData, newState, result, pre, rotated>>

\* Mutant: the new access token is not written.
PersistAccessToken_SkipsWrite ==
    /\ pc = "persistAccess"
    /\ pc' = "persistRefresh"
    /\ UNCHANGED <<now, crashed, aside, files, provider, locals, result, sent,
                   pre, rotated>>

\* Mutant: persisting a refreshed token also deletes the pending-flow record.
PersistAccessToken_DropsRecord ==
    /\ pc = "persistAccess"
    /\ accessFile' = IF refreshed.accessToken # None
                       THEN writeTextFile(refreshed.accessToken) ELSE accessFile
    /\ stateFile' = deleteFileIfExists(stateFile)
    /\ pc' = "persistRefresh"
    /\ UNCHANGED <<now, crashed, aside, refreshFile, provider, locals, result, sent,
                   pre, rotated>>

\* Step 3 (persistTokensToDisk, line 1577): the access token is written.
PersistAccessToken ==
    /\ pc = "persistAccess"
    /\ accessFile' = IF refreshed.accessToken # None
                       THEN writeTextFile(refreshed.accessToken) ELSE accessFile
    /\ pc' = "persistRefresh"
    /\ UNCHANGED <<now, crashed, aside, refreshFile, stateFile, provider, locals, result, sent,
                   pre, rotated>>

\* Mutant: the loop bound is off by one and allows a third attempt.
AfterPersist_OffByOne(ms) ==
    IF isLikelyValidAccessToken(refreshed.accessToken, ms)
      THEN [pc |-> "returned", result |-> Returned(refreshed.accessToken),
            currentRefresh |-> currentRefresh, attempt |-> attempt]
      ELSE [pc |-> IF attempt + 1 <= MaxAttempts THEN "refresh" ELSE "clearTokens",
            result |-> result,
            currentRefresh |-> NextRefreshToken(refreshed, currentRefresh),
            attempt |-> attempt + 1]

\* lines 1729, 1730 and the loop header: after persisting, return the token if
\* it is usable, else go round the loop with the refresh token just received.
AfterPersist(ms) ==
    IF isLikelyValidAccessToken(refreshed.accessToken, ms)
      THEN [pc |-> "returned", result |-> Returned(refreshed.accessToken),
            currentRefresh |-> currentRefresh, attempt |-> attempt]
      ELSE [pc |-> IF attempt + 1 < MaxAttempts THEN "refresh" ELSE "clearTokens",
            result |-> result,
            currentRefresh |-> NextRefreshToken(refreshed, currentRefresh),
            attempt |-> attempt + 1]

\* Step 4 (persistTokensToDisk, line 1578, then lines 1729-1730): the refresh
\* token is written, then the new access token is validated.
PersistRefreshToken ==
    /\ pc = "persistRefresh"
    /\ refreshFile' = IF refreshed.refreshToken # None
                        THEN writeTextFile(refreshed.refreshToken) ELSE refreshFile
    /\ rotated' = IF refreshed.refreshToken # currentRefresh
                    THEN rotated \cup {currentRefresh} ELSE rotated
    /\ LET a == AfterPersist(now) IN
       /\ pc' = a.pc
       /\ result' = a.result
       /\ currentRefresh' = a.currentRefresh
       /\ attempt' = a.attempt
    /\ UNCHANGED <<now, crashed, aside, startResponse, accessFile, stateFile, provider, tokens, refreshData,
                   refreshed, lastError, state, data, startData, newState, sent, pre>>

\* Mutant: only the access-token file is deleted.
ClearTokensOnDisk_KeepsRefresh ==
    /\ pc = "clearTokens"
    /\ accessFile' = deleteFileIfExists(accessFile)
    /\ pc' = "readState"
    /\ currentRefresh' = None
    /\ attempt' = 0
    /\ refreshData' = None
    /\ refreshed' = NoTokens
    /\ lastError' = None
    /\ UNCHANGED <<now, crashed, aside, startResponse, refreshFile, stateFile, provider, tokens, state,
                   data, startData, newState, result, sent, pre, rotated>>

\* Mutant: only the refresh-token file is deleted.
ClearTokensOnDisk_KeepsAccess ==
    /\ pc = "clearTokens"
    /\ refreshFile' = deleteFileIfExists(refreshFile)
    /\ pc' = "readState"
    /\ currentRefresh' = None
    /\ attempt' = 0
    /\ refreshData' = None
    /\ refreshed' = NoTokens
    /\ lastError' = None
    /\ UNCHANGED <<now, crashed, aside, startResponse, accessFile, stateFile, provider, tokens, state,
                   data, startData, newState, result, sent, pre, rotated>>

\* Step 5 (clearTokensOnDisk, line 1737): both token files are deleted.  The
\* block of step 2 ends here and its variables go out of scope.
ClearTokensOnDisk ==
    /\ pc = "clearTokens"
    /\ accessFile' = deleteFileIfExists(accessFile)
    /\ refreshFile' = deleteFileIfExists(refreshFile)
    /\ pc' = "readState"
    /\ currentRefresh' = None
    /\ attempt' = 0
    /\ refreshData' = None
    /\ refreshed' = NoTokens
    /\ lastError' = None
    /\ UNCHANGED <<now, crashed, aside, startResponse, stateFile, provider, tokens, state, data, startData,
                   newState, result, sent, pre, rotated>>

\* readDeviceCodeState: undefined for a missing or blank file and for text
\* that is not JSON.
readDeviceCodeState ==
    LET content == readTextFileIfExists(stateFile) IN
    IF content = None THEN None ELSE JsonParse(content)

\* Mutant: a stored record is never resumed; the call starts a new flow.
AfterReadState_StartsAnew(st, ms) == "startFlow"

\* lines 1745-1753: where the call goes once the pending-flow record is read.
AfterReadState(st, ms) ==
    IF st = None THEN "startFlow"
    ELSE IF isDeviceCodeStateExpired(st, ms) THEN "clearExpired"
    ELSE "poll"

\* Step 6 (lines 1743-1751): the pending-flow record is read and examined.
ReadDeviceCodeState ==
    /\ pc = "readState"
    /\ state' = readDeviceCodeState
    /\ pc' = AfterReadState(readDeviceCodeState, now)
    /\ UNCHANGED <<now, crashed, aside, startResponse, files, provider, tokens, currentRefresh, attempt,
                   refreshData, refreshed, lastError, data, startData, newState,
                   result, sent, pre, rotated>>

\* Step 7 (lines 1749-1750): an expired record is deleted.
ClearExpiredState ==
    /\ pc = "clearExpired"
    /\ stateFile' = deleteFileIfExists(stateFile)
    /\ state' = None
    /\ pc' = "startFlow"
    /\ UNCHANGED <<now, crashed, aside, startResponse, accessFile, refreshFile, provider, tokens, currentRefresh,
                   attempt, refreshData, refreshed, lastError, data, startData,
                   newState, result, sent, pre, rotated>>

\* Responses the token endpoint can give to a poll: it completes only a flow
\* it has issued, so a request without a device code gets no tokens.
PollResponses(dc) ==
    IF dc = None
      THEN {r \in TokenResponses({}) : r.access_token = None}
      ELSE TokenResponses(FreshRefreshTokens)

\* lines 1755-1767: what getValidAccessToken does with a poll result that is
\* not "completed".
AfterCheck(res, st) ==
    IF res.status = "pending"
      THEN [pc |-> "returned", result |-> DeviceCodeAuthRequiredError(st)]
      ELSE [pc |-> "clearFailed", result |-> NoResult]

\* Step 8 (checkDeviceCodeResult lines 1530-1544 and 1554-1562, then lines
\* 1755-1763): one poll of the token endpoint with the stored device code.
\* A rejected fetch or an unparsable body propagates out of the call.
CheckDeviceCodeResult ==
    /\ pc = "poll"
    /\ sent' = Append(sent, PollRequest(state.deviceCode))
    /\ \/ /\ pc' = "returned"
          /\ result' = Thrown(Str("fetch failed"))
          /\ UNCHANGED <<data, nextRT>>
       \/ \E resp \in PollResponses(state.deviceCode) :
            /\ ProviderIssued(resp.refresh_token)
            /\ data' = resp
            /\ IF PollSucceeded(resp)
                 THEN pc' = "pollWriteAccess" /\ UNCHANGED result
                 ELSE LET a == AfterCheck(CheckFailure(resp, state), state) IN
                      pc' = a.pc /\ result' = a.result
    /\ UNCHANGED <<now, crashed, aside, startResponse, files, nextFlow, tokens, currentRefresh, attempt,
                   refreshData, refreshed, lastError, state, startData, newState,
                   pre, rotated>>

\* Mutant: the completed flow's access token is not written to the file.
PollWriteAccess_NoWrite ==
    /\ pc = "pollWriteAccess"
    /\ pc' = IF data.refresh_token # None THEN "pollWriteRefresh" ELSE "pollClearState"
    /\ UNCHANGED <<now, crashed, aside, files, provider, locals, result, sent,
                   pre, rotated>>

\* Step 9 (line 1548): the access token of the completed flow is written.
PollWriteAccess ==
    /\ pc = "pollWriteAccess"
    /\ accessFile' = writeTextFile(data.access_token)
    /\ pc' = IF data.refresh_token # None THEN "pollWriteRefresh" ELSE "pollClearState"
    /\ UNCHANGED <<now, crashed, aside, refreshFile, stateFile, provider, locals, result, sent,
                   pre, rotated>>

\* Step 10 (line 1549): its refresh token is written.
PollWriteRefresh ==
    /\ pc = "pollWriteRefresh"
    /\ refreshFile' = writeTextFile(data.refresh_token)
    /\ pc' = "pollClearState"
    /\ UNCHANGED <<now, crashed, aside, accessFile, stateFile, provider, locals, result, sent,
                   pre, rotated>>

\* Mutant: the pending-flow record is not deleted on completion.
PollClearState_KeepsRecord ==
    /\ pc = "pollClearState"
    /\ pc' = "returned"
    /\ result' = Returned(data.access_token)
    /\ UNCHANGED <<now, crashed, aside, files, provider, locals, sent, pre, rotated>>

\* Step 11 (lines 1550-1551 and 1755-1757): the pending-flow record is
\* deleted and the access token returned.
PollClearState ==
    /\ pc = "pollClearState"
    /\ stateFile' = deleteFileIfExists(stateFile)
    /\ pc' = "returned"
    /\ result' = Returned(data.access_token)
    /\ UNCHANGED <<now, crashed, aside, accessFile, refreshFile, provider, locals, sent, pre, rotated>>

\* Mutant: the record of a failed flow is not deleted.
ClearFailedState_KeepsRecord ==
    /\ pc = "clearFailed"
    /\ state' = None
    /\ data' = None
    /\ pc' = "startFlow"
    /\ UNCHANGED <<now, crashed, aside, startResponse, files, provider, tokens, currentRefresh, attempt,
                   refreshData, refreshed, lastError, startData, newState,
                   result, sent, pre, rotated>>

\* Step 12 (lines 1766-1767): the record of a failed flow is deleted.  The
\* poll result goes out of scope.
ClearFailedState ==
    /\ pc = "clearFailed"
    /\ stateFile' = deleteFileIfExists(stateFile)
    /\ state' = None
    /\ data' = None
    /\ pc' = "startFlow"
    /\ UNCHANGED <<now, crashed, aside, startResponse, accessFile, refreshFile, provider, tokens, currentRefresh,
                   attempt, refreshData, refreshed, lastError, startData,
                   newState, result, sent, pre, rotated>>

\* Responses the device-authorization endpoint can give to a new request.
StartResponses ==
    IF nextFlow <= MaxFlows
      THEN {StartResponse(nextFlow, uric, i, l) :
                uric \in {None, UriComplete(nextFlow)}, i \in IntervalInputs,
                l \in 1..MaxLifetime}
      ELSE {}

\* Step 13 (startDeviceCodeLogin lines 1494-1512): one request to the
\* device-authorization endpoint.  A rejected fetch propagates out of the
\* call; a non-success response is thrown as an Error with toErrorMessage.
StartDeviceCodeLogin ==
    /\ pc = "startFlow"
    /\ sent' = Append(sent, DeviceCodeRequest)
    /\ \/ /\ result' = Thrown(Str("fetch failed"))
          /\ pc' = "returned"
          /\ UNCHANGED <<startResponse, startData, newState, nextFlow>>
       \/ \E response \in ErrorResponses :
            /\ startResponse' = response
            /\ result' = Thrown(toErrorMessage(response))
            /\ pc' = "returned"
            /\ UNCHANGED <<startData, newState, nextFlow>>
       \/ \E resp \in StartResponses :
            /\ startResponse' = OkResponse(resp)
            /\ startData' = resp
            /\ newState' = BuildState(resp, now)
            /\ nextFlow' = nextFlow + 1
            /\ pc' = "persistState"
            /\ UNCHANGED result
    /\ UNCHANGED <<now, crashed, aside, files, nextRT, tokens, currentRefresh, attempt,
                   refreshData, refreshed, lastError, state, data, pre, rotated>>

\* persistDeviceCodeState
persistDeviceCodeState(st) == writeTextFile(Json(st))

\* Mutant: DeviceCodeAuthRequiredError is thrown without the record having
\* been written.
PersistDeviceCodeState_NoWrite ==
    /\ pc = "persistState"
    /\ pc' = "returned"
    /\ result' = DeviceCodeAuthRequiredError(newState)
    /\ UNCHANGED <<now, crashed, aside, files, provider, locals, sent, pre, rotated>>

\* Mutant: after the record is written the call goes on to poll the new
\* flow instead of throwing.
PersistDeviceCodeState_ThenPolls ==
    /\ pc = "persistState"
    /\ stateFile' = persistDeviceCodeState(newState)
    /\ pc' = "readState"
    /\ UNCHANGED <<now, crashed, aside, accessFile, refreshFile, provider, locals,
                   result, sent, pre, rotated>>

\* Step 14 (lines 1513-1514 and 1774-1776): the new record is written and
\* DeviceCodeAuthRequiredError thrown.
PersistDeviceCodeState ==
    /\ pc = "persistState"
    /\ stateFile' = persistDeviceCodeState(newState)
    /\ pc' = "returned"
    /\ result' = DeviceCodeAuthRequiredError(newState)
    /\ UNCHANGED <<now, crashed, aside, accessFile, refreshFile, provider, locals, sent, pre, rotated>>

\* The caller has the result; the frame of the call is gone.
Return ==
    /\ pc = "returned"
    /\ pc' = "idle"
    /\ tokens' = NoTokens
    /\ currentRefresh' = None
    /\ attempt' = 0
    /\ refreshData' = None
    /\ refreshed' = NoTokens
    /\ lastError' = None
    /\ state' = None
    /\ data' = None
    /\ startData' = None
    /\ startResponse' = None
    /\ newState' = None
    /\ result' = NoResult
    /\ sent' = <<>>
    /\ pre' = NoSnapshot
    /\ crashed' = NoCrash
    /\ UNCHANGED <<now, aside, files, provider, rotated>>

\* Time passes between two calls.
Tick ==
    /\ pc = "idle"
    /\ now < MaxTicks * ClockStep
    /\ now' = now + ClockStep
    /\ UNCHANGED <<crashed, aside, files, provider, pc, locals, result, sent, pre, rotated>>

Next ==
    \/ GetValidAccessToken
    \/ RefreshOnce
    \/ PersistAccessToken
    \/ PersistRefreshToken
    \/ ClearTokensOnDisk
    \/ ReadDeviceCodeState
    \/ ClearExpiredState
    \/ CheckDeviceCodeResult
    \/ PollWriteAccess
    \/ PollWriteRefresh
    \/ PollClearState
    \/ ClearFailedState
    \/ StartDeviceCodeLogin
    \/ PersistDeviceCodeState
    \/ Return
    \/ Tick

Spec == Init /\ [][Next]_vars

\* A storage directory nothing has been written to yet, and a provider that
\* has issued neither a refresh token nor a device-code flow.
InitEmpty ==
    /\ now = 0
    /\ accessFile = None
    /\ refreshFile = None
    /\ stateFile = None
    /\ nextRT = 1
    /\ nextFlow = 1
    /\ pc = "idle"
    /\ NoCall
    /\ rotated = {}
    /\ crashed = NoCrash
    /\ probe = NoProbe
    /\ clientId = ClientId
    /\ lastOutcome = NoResult
    /\ NoCalendar
    /\ NoStorage

\* Sequential calls of getValidAccessToken on storage that starts empty.
SpecEmpty == InitEmpty /\ [][Next]_vars

\* The access token the provider has delivered to the running call in answer
\* to a poll (line 1545) or a refresh (line 1627) and which the caller has
\* not yet received.
HeldToken ==
    IF pc \in {"pollWriteAccess", "pollWriteRefresh", "pollClearState"}
      THEN data.access_token
    ELSE IF pc \in {"persistAccess", "persistRefresh"}
      THEN refreshed.accessToken
    ELSE IF pc = "returned" /\ result.kind = "token" /\ sent # <<>>
      THEN result.token
    ELSE None

\* The write of the access token (line 1548 or 1577) is behind the call.
AccessTokenWritten == pc \notin {"pollWriteAccess", "persistAccess"}

\* The process dies at one of the awaits of getValidAccessToken that follow
\* the provider's delivery of a usable access token, or before its caller
\* has the result: everything in memory is gone, the files stay.  One crash
\* is followed per run.
Crash ==
    /\ crashed = NoCrash
    /\ HeldToken # None
    /\ isLikelyValidAccessToken(HeldToken, now)
    /\ crashed' = [token |-> HeldToken, written |-> AccessTokenWritten]
    /\ pc' = "idle"
    /\ tokens' = NoTokens
    /\ currentRefresh' = None
    /\ attempt' = 0
    /\ refreshData' = None
    /\ refreshed' = NoTokens
    /\ lastError' = None
    /\ state' = None
    /\ data' = None
    /\ startData' = None
    /\ startResponse' = None
    /\ newState' = None
    /\ result' = NoResult
    /\ sent' = <<>>
    /\ pre' = NoSnapshot
    /\ UNCHANGED <<now, aside, files, provider, rotated>>

\* Runs with a crash: from any persisted state, a call either runs to its
\* result, where the run ends, or dies and is followed by the next call,
\* which runs to its result.
NextCrash ==
    \/ GetValidAccessToken
    \/ RefreshOnce
    \/ PersistAccessToken
    \/ PersistRefreshToken
    \/ ClearTokensOnDisk
    \/ ReadDeviceCodeState
    \/ ClearExpiredState
    \/ CheckDeviceCodeResult
    \/ PollWriteAccess
    \/ PollWriteRefresh
    \/ PollClearState
    \/ ClearFailedState
    \/ StartDeviceCodeLogin
    \/ PersistDeviceCodeState
    \/ Tick
    \/ Crash

SpecCrash == Init /\ [][NextCrash]_vars

\* An instance constructed without a client id (config.auth.clientId is
\* undefined), on the same storage contents as Init.
InitUnconfigured ==
    /\ now = 0
    /\ accessFile \in {None} \cup {File(t) : t \in AccessTokens}
    /\ refreshFile \in {None, File(RT(1))}
    /\ stateFile \in {None, File(Blank), File(Garbage), File(Json(EmptyObjectState))}
                        \cup {File(Json(st)) : st \in InitialStates}
    /\ nextRT = 2
    /\ nextFlow = 2
    /\ pc = "idle"
    /\ NoCall
    /\ rotated = {}
    /\ crashed = NoCrash
    /\ probe = NoProbe
    /\ clientId = None
    /\ lastOutcome = NoResult
    /\ NoCalendar
    /\ NoStorage

\* One call, followed from any instant to its result.
NextCall ==
    \/ GetValidAccessToken
    \/ RefreshOnce
    \/ PersistAccessToken
    \/ PersistRefreshToken
    \/ ClearTokensOnDisk
    \/ ReadDeviceCodeState
    \/ ClearExpiredState
    \/ CheckDeviceCodeResult
    \/ PollWriteAccess
    \/ PollWriteRefresh
    \/ PollClearState
    \/ ClearFailedState
    \/ StartDeviceCodeLogin
    \/ PersistDeviceCodeState
    \/ Tick

SpecUnconfigured == InitUnconfigured /\ [][NextCall]_vars

\* The steps of a running call.  Each is an await of getValidAccessToken;
\* when every request and file operation completes, the call takes them.
CallStep ==
    \/ RefreshOnce
    \/ PersistAccessToken
    \/ PersistRefreshToken
    \/ ClearTokensOnDisk
    \/ ReadDeviceCodeState
    \/ ClearExpiredState
    \/ CheckDeviceCodeResult
    \/ PollWriteAccess
    \/ PollWriteRefresh
    \/ PollClearState
    \/ ClearFailedState
    \/ StartDeviceCodeLogin
    \/ PersistDeviceCodeState

\* One call whose awaits all complete.
SpecCallFair == Init /\ [][NextCall]_vars /\ WF_vars(CallStep)

\* The caller has the result of a call and will call again; it keeps a
\* DeviceCodeAuthRequiredError to show the user code.
Retry ==
    /\ pc = "returned"
    /\ lastOutcome' = IF result.kind = "authRequired" THEN result ELSE NoResult
    /\ pc' = "idle"
    /\ tokens' = NoTokens
    /\ currentRefresh' = None
    /\ attempt' = 0
    /\ refreshData' = None
    /\ refreshed' = NoTokens
    /\ lastError' = None
    /\ state' = None
    /\ data' = None
    /\ startData' = None
    /\ startResponse' = None
    /\ newState' = None
    /\ result' = NoResult
    /\ sent' = <<>>
    /\ pre' = NoSnapshot
    /\ UNCHANGED <<now, crashed, probe, config, calendar, storage, files, provider,
                   rotated>>

\* The user completes the login within the lifetime of the flow: time does
\* not pass the expiry of a stored flow.
TickWithinLifetime ==
    /\ Tick
    /\ LET st == readDeviceCodeState IN
       (st # None /\ st.expiresAt # None) => ~isDeviceCodeStateExpired(st, now')

\* The provider's answer to a poll of a flow that is neither declined nor
\* expired: still pending, or completed.
PollOfLiveFlow ==
    /\ CheckDeviceCodeResult
    /\ \/ pc' = "pollWriteAccess"
       \/ pc' = "returned" /\ result'.kind = "authRequired"

\* The poll that the provider answers with the tokens.
ConfirmingPoll == CheckDeviceCodeResult /\ pc' = "pollWriteAccess"

\* No stored flow expires here, so no expired record is ever found.
NextRetry ==
    \/ GetValidAccessToken
    \/ RefreshOnce
    \/ PersistAccessToken
    \/ PersistRefreshToken
    \/ ClearTokensOnDisk
    \/ ReadDeviceCodeState
    \/ PollOfLiveFlow
    \/ PollWriteAccess
    \/ PollWriteRefresh
    \/ PollClearState
    \/ StartDeviceCodeLogin
    \/ PersistDeviceCodeState
    \/ Retry
    \/ TickWithinLifetime

\* A caller that retries for ever, every await completing, against a provider
\* that in the end confirms a flow it is polled for.
SpecRetryFair ==
    /\ Init
    /\ [][NextRetry]_vars
    /\ WF_vars(CallStep)
    /\ WF_vars(GetValidAccessToken \/ Retry)
    /\ SF_vars(ConfirmingPoll)

-----------------------------------------------------------------------------
(* The authenticator of the calendar client, src/unnamed/part_004.  It has  *)
(* the entry points startDeviceCodeLogin, checkDeviceCodeResult and         *)
(* getValidAccessToken; it keeps no pending-flow record on disk.  Its       *)
(* refreshOnce and persistTokensToDisk read as those of part_005, so the    *)
(* steps RefreshOnce, PersistAccessToken and PersistRefreshToken serve both.*)

\* What an entry point returns when it resolves with a value.
Resolved(v) == [kind |-> "value", value |-> v]
\* The fetch of a request rejects.
FetchFailed == [k |-> "fetchFailed"]

\* startDeviceCodeLogin lines 1247-1257: the DeviceCodeStartResult.  (The
\* message of the response is handed through and is left out here.)
DeviceCodeStartResult(resp, ms) ==
    [deviceCode |-> resp.device_code, userCode |-> resp.user_code,
     verificationUri |-> resp.verification_uri,
     verificationUriComplete |-> resp.verification_uri_complete,
     intervalSeconds |-> IntervalOf(resp),
     expiresAt |-> toISOString(ms + resp.expires_in * MsPerSecond)]

\* Mutant: the remembered flow is kept when one is already remembered.
Remember_KeepsFirst(mem, resp) ==
    IF mem # None THEN mem
    ELSE [deviceCode |-> resp.device_code, intervalSeconds |-> IntervalOf(resp)]

\* startDeviceCodeLogin line 1248: this.lastDeviceCode = { ... }
Remember(mem, resp) ==
    [deviceCode |-> resp.device_code, intervalSeconds |-> IntervalOf(resp)]

\* startDeviceCodeLogin (lines 1236-1258): one request to the
\* device-authorization endpoint; nothing is read from or written to disk.
CalendarStartDeviceCodeLogin ==
    /\ pc = "idle"
    /\ entry' = [fn |-> "startDeviceCodeLogin", deviceCode |-> None]
    /\ sent' = Append(sent, DeviceCodeRequest)
    /\ pre' = Snapshot
    /\ pc' = "returned"
    /\ \/ /\ result' = Thrown(Str("fetch failed"))
          /\ UNCHANGED <<startResponse, startData, nextFlow, lastDeviceCode>>
       \/ \E response \in ErrorResponses :
            /\ startResponse' = response
            /\ result' = Thrown(toErrorMessage(response))
            /\ UNCHANGED <<startData, nextFlow, lastDeviceCode>>
       \/ \E resp \in StartResponses :
            /\ startResponse' = OkResponse(resp)
            /\ startData' = resp
            /\ nextFlow' = nextFlow + 1
            /\ lastDeviceCode' = Remember(lastDeviceCode, resp)
            /\ result' = Resolved(DeviceCodeStartResult(resp, now))
    /\ UNCHANGED <<now, crashed, probe, config, caller, storage, twin, files, nextRT, tokens,
                   currentRefresh, attempt, refreshData, refreshed, lastError,
                   state, data, newState, rotated>>

\* Mutant: the device code remembered by the instance is not consulted.
EffectiveDeviceCode_IgnoresMemory(arg, mem) == arg

\* checkDeviceCodeResult line 1266: deviceCode ?? this.lastDeviceCode?.deviceCode
EffectiveDeviceCode(arg, mem) ==
    IF arg # None THEN arg
    ELSE IF mem # None THEN mem.deviceCode
    ELSE None
\* checkDeviceCodeResult line 1267: this.lastDeviceCode?.intervalSeconds ?? 5
IntervalSeconds(mem) ==
    IF mem # None THEN mem.intervalSeconds ELSE Num(DefaultInterval)
\* checkDeviceCodeResult line 1269
MissingDeviceCode ==
    [status |-> "error",
     error |-> Str("Missing device_code. Call startDeviceCodeLogin() first.")]

\* checkDeviceCodeResult (lines 1264-1298) as a function of the instance's
\* memory, its argument and the answer to the poll, if one is sent.
CalendarCheckResult(mem, arg, answer) ==
    IF EffectiveDeviceCode(arg, mem) = None THEN Resolved(MissingDeviceCode)
    ELSE IF answer = FetchFailed THEN Thrown(Str("fetch failed"))
    ELSE Resolved(checkDeviceCodeResult(answer,
                                        [intervalSeconds |-> IntervalSeconds(mem)]))

\* Device codes a caller can pass: none, or one the provider has issued.
KnownDeviceCodes == {None} \cup {DC(n) : n \in 1..(nextFlow - 1)}

\* checkDeviceCodeResult, first step (lines 1264-1283 and 1290-1297): without
\* a device code it returns at once; else it sends one poll.
CalendarCheckDeviceCodeResult(arg) ==
    /\ pc = "idle"
    /\ entry' = [fn |-> "checkDeviceCodeResult", deviceCode |-> arg]
    /\ pre' = Snapshot
    /\ LET mem == lastDeviceCode
           dc == EffectiveDeviceCode(arg, mem) IN
       \E answer \in {FetchFailed} \cup TokenResponses(FreshRefreshTokens) :
          /\ twin' = CalendarCheckResult(None, arg, answer)
          /\ IF dc = None
               THEN /\ result' = CalendarCheckResult(mem, arg, answer)
                    /\ pc' = "returned"
                    /\ UNCHANGED <<sent, data, nextRT>>
             ELSE IF answer = FetchFailed
               THEN /\ sent' = Append(sent, PollRequest(dc))
                    /\ result' = CalendarCheckResult(mem, arg, answer)
                    /\ pc' = "returned"
                    /\ UNCHANGED <<data, nextRT>>
             ELSE /\ sent' = Append(sent, PollRequest(dc))
                  /\ data' = answer
                  /\ ProviderIssued(answer.refresh_token)
                  /\ IF PollSucceeded(answer)
                       THEN pc' = "checkWriteAccess" /\ UNCHANGED result
                       ELSE /\ pc' = "returned"
                            /\ result' = CalendarCheckResult(mem, arg, answer)
    /\ UNCHANGED <<now, crashed, probe, config, caller, storage, lastDeviceCode, files,
                   nextFlow, tokens, currentRefresh, attempt, refreshData,
                   refreshed, lastError, state, startData, newState,
                   startResponse, rotated>>

\* Mutant: completed is returned before the access token is written.
CalendarCheckWriteAccess_NoWrite ==
    /\ pc = "checkWriteAccess"
    /\ pc' = IF data.refresh_token # None THEN "checkWriteRefresh" ELSE "returned"
    /\ result' = IF data.refresh_token # None THEN result
                 ELSE CalendarCheckResult(lastDeviceCode, entry.deviceCode, data)
    /\ UNCHANGED <<now, crashed, aside, files, provider, locals, sent,
                   pre, rotated>>

\* checkDeviceCodeResult line 1285: the access token is written.
CalendarCheckWriteAccess ==
    /\ pc = "checkWriteAccess"
    /\ accessFile' = writeTextFile(data.access_token)
    /\ pc' = IF data.refresh_token # None THEN "checkWriteRefresh" ELSE "returned"
    /\ result' = IF data.refresh_token # None THEN result
                 ELSE CalendarCheckResult(lastDeviceCode, entry.deviceCode, data)
    /\ UNCHANGED <<now, crashed, aside, refreshFile, stateFile, provider, locals, sent,
                   pre, rotated>>

\* checkDeviceCodeResult lines 1286-1287: the refresh token is written and
\* completed returned.
CalendarCheckWriteRefresh ==
    /\ pc = "checkWriteRefresh"
    /\ refreshFile' = writeTextFile(data.refresh_token)
    /\ pc' = "returned"
    /\ result' = CalendarCheckResult(lastDeviceCode, entry.deviceCode, data)
    /\ UNCHANGED <<now, crashed, aside, accessFile, stateFile, provider, locals, sent,
                   pre, rotated>>

\* getValidAccessToken lines 1344-1353: where the call goes once the token
\* files are read.
CalendarAfterRead(pair, ms) ==
    IF StoredTokenUsable(pair, ms)
      THEN [pc |-> "returned", result |-> Returned(pair.accessToken),
            currentRefresh |-> None]
    ELSE IF pair.refreshToken = None
      THEN [pc |-> "returned",
            result |-> Thrown(Str("No valid access token found. Call startDeviceCodeLogin(), then checkDeviceCodeResult() until completed.")),
            currentRefresh |-> None]
    ELSE [pc |-> "refresh", result |-> NoResult,
          currentRefresh |-> pair.refreshToken]

\* getValidAccessToken, first step (lines 1343-1354).
CalendarGetValidAccessToken ==
    /\ pc = "idle"
    /\ entry' = [fn |-> "getValidAccessToken", deviceCode |-> None]
    /\ pre' = Snapshot
    /\ LET t == readTokensFromDisk
           a == CalendarAfterRead(t, now) IN
       /\ tokens' = t
       /\ pc' = a.pc
       /\ result' = a.result
       /\ currentRefresh' = a.currentRefresh
    /\ UNCHANGED <<now, crashed, probe, config, caller, storage, lastDeviceCode, twin, files,
                   provider, attempt, refreshData, refreshed, lastError, state,
                   data, startData, newState, startResponse, sent, rotated>>

\* The message of the error thrown when the refresh has failed (line 1371).
RefreshFailure(err) ==
    [k |-> "refreshFailed",
     cause |-> IF err = None THEN Str("Unknown refresh error") ELSE err]

\* Mutant: the call fails without deleting the token files.
CalendarClearTokensOnDisk_KeepsTokens ==
    /\ pc = "clearTokens"
    /\ result' = Thrown(RefreshFailure(lastError))
    /\ pc' = "returned"
    /\ UNCHANGED <<now, crashed, aside, files, provider, locals, sent, pre, rotated>>

\* getValidAccessToken lines 1370-1372: both token files are deleted and the
\* call fails; no flow is started.
CalendarClearTokensOnDisk ==
    /\ pc = "clearTokens"
    /\ accessFile' = deleteFileIfExists(accessFile)
    /\ refreshFile' = deleteFileIfExists(refreshFile)
    /\ result' = Thrown(RefreshFailure(lastError))
    /\ pc' = "returned"
    /\ UNCHANGED <<now, crashed, aside, stateFile, provider, locals, sent, pre, rotated>>

\* The caller has the result of the entry point; a completed login is what
\* it acts on next.
CalendarReturn ==
    /\ pc = "returned"
    /\ lastOutcome' = IF /\ entry.fn = "checkDeviceCodeResult"
                          /\ result.kind = "value"
                          /\ result.value.status = "completed"
                        THEN result ELSE NoResult
    /\ entry' = NoEntry
    /\ twin' = NoResult
    /\ pc' = "idle"
    /\ tokens' = NoTokens
    /\ currentRefresh' = None
    /\ attempt' = 0
    /\ refreshData' = None
    /\ refreshed' = NoTokens
    /\ lastError' = None
    /\ state' = None
    /\ data' = None
    /\ startData' = None
    /\ startResponse' = None
    /\ newState' = None
    /\ result' = NoResult
    /\ sent' = <<>>
    /\ pre' = NoSnapshot
    /\ UNCHANGED <<now, crashed, probe, config, storage, lastDeviceCode, files, provider,
                   rotated>>

\* The storage directory as earlier runs may have left it.
InitCalendar ==
    /\ now = 0
    /\ accessFile \in {None} \cup {File(t) : t \in AccessTokens}
    /\ refreshFile \in {None, File(RT(1))}
    /\ stateFile = None
    /\ nextRT = 2
    /\ nextFlow = 2
    /\ pc = "idle"
    /\ NoCall
    /\ rotated = {}
    /\ crashed = NoCrash
    /\ probe = NoProbe
    /\ clientId = ClientId
    /\ lastOutcome = NoResult
    /\ NoCalendar
    /\ NoStorage

NextCalendar ==
    \/ CalendarStartDeviceCodeLogin
    \/ \E arg \in KnownDeviceCodes : CalendarCheckDeviceCodeResult(arg)
    \/ CalendarCheckWriteAccess
    \/ CalendarCheckWriteRefresh
    \/ CalendarGetValidAccessToken
    \/ RefreshOnce
    \/ PersistAccessToken
    \/ PersistRefreshToken
    \/ CalendarClearTokensOnDisk
    \/ CalendarReturn
    \/ Tick

SpecCalendar == InitCalendar /\ [][NextCalendar]_vars

-----------------------------------------------------------------------------
(* Where the records are kept.  Every storage operation of the class goes   *)
(* through resolveTokenPaths(this.tokenStorage); the entry points touch the  *)
(* disk through these six operations only.  File names are plain names (no  *)
(* separators), for which path.join(dir, name) is the file name in dir.      *)

DEFAULT_SESSION_DIR == Str("/workspace/.session")
TestDir == Str("/tmp/graph-test-1")
Dirs == {DEFAULT_SESSION_DIR, TestDir}
FileNames ==
    {Str(".access_token"), Str(".refresh_token"), Str(".device_code_state"),
     Str("flow.json")}

\* pathMod.join(dir, name)
pathJoin(dir, name) == [dir |-> dir, name |-> name]
Paths == {pathJoin(d, n) : d \in Dirs, n \in FileNames}

\* GraphTokenStorageConfig; a field that is not given is None.
GraphTokenStorageConfig(dir, stateName) ==
    [dir |-> dir, accessTokenFilename |-> None, refreshTokenFilename |-> None,
     deviceCodeStateFilename |-> stateName]
\* tokenStorage of the configuration: not given, a directory, or a directory
\* and a name for the pending-flow record.
StorageConfigs ==
    {None, GraphTokenStorageConfig(TestDir, None),
     GraphTokenStorageConfig(TestDir, Str("flow.json")),
     GraphTokenStorageConfig(None, Str("flow.json"))}

\* storage?.field ?? fallback
FieldOr(cfg, field, fallback) ==
    IF cfg = None THEN fallback
    ELSE IF cfg[field] = None THEN fallback
    ELSE cfg[field]

\* Mutant: the configured directory is not used.
resolveTokenPaths_IgnoresDir(cfg) ==
    LET dir == DEFAULT_SESSION_DIR IN
    [dir |-> dir,
     accessPath |-> pathJoin(dir, FieldOr(cfg, "accessTokenFilename", Str(".access_token"))),
     refreshPath |-> pathJoin(dir, FieldOr(cfg, "refreshTokenFilename", Str(".refresh_token"))),
     statePath |-> pathJoin(dir, FieldOr(cfg, "deviceCodeStateFilename", Str(".device_code_state")))]

\* resolveTokenPaths
resolveTokenPaths(cfg) ==
    LET dir == FieldOr(cfg, "dir", DEFAULT_SESSION_DIR) IN
    [dir |-> dir,
     accessPath |-> pathJoin(dir, FieldOr(cfg, "accessTokenFilename", Str(".access_token"))),
     refreshPath |-> pathJoin(dir, FieldOr(cfg, "refreshTokenFilename", Str(".refresh_token"))),
     statePath |-> pathJoin(dir, FieldOr(cfg, "deviceCodeStateFilename", Str(".device_code_state")))]

\* this.tokenPaths()
tokenPaths(i) == resolveTokenPaths(tokenStorage[i])

Authenticators == {"a", "b"}
\* What the operations are given to store.
StoredPairs ==
    {[accessToken |-> a, refreshToken |-> r] :
        a \in {None, Jwt("exp", SkewSeconds + 1)}, r \in {None, RT(1)}}
StoredStates ==
    {DeviceCodeState(DC(n), UC(n), Uri(n), None, Num(DefaultInterval),
                     Iso(MsPerSecond)) : n \in 1..2}

\* The operation op of authenticator i has opened the paths ps.
Accessed(op, i, ps) ==
    access' = [op |-> op, self |-> i, opened |-> ps, before |-> [p \in ps |-> disk[p]]]

\* Everything but the file system.
program == <<now, files, provider, pc, locals, result, sent, pre, rotated, crashed,
             probe, config, caller, calendar>>

\* readTokensFromDisk
StoreReadTokens(i) ==
    /\ Accessed("readTokensFromDisk", i, {tokenPaths(i).accessPath, tokenPaths(i).refreshPath})
    /\ UNCHANGED <<disk, tokenStorage, program>>

\* persistTokensToDisk
StorePersistTokens(i, pair) ==
    LET ap == tokenPaths(i).accessPath
        rp == tokenPaths(i).refreshPath
        written == (IF pair.accessToken # None THEN {ap} ELSE {})
                      \cup (IF pair.refreshToken # None THEN {rp} ELSE {}) IN
    /\ disk' = [p \in Paths |->
                  IF p = rp /\ pair.refreshToken # None
                    THEN writeTextFile(pair.refreshToken)
                  ELSE IF p = ap /\ pair.accessToken # None
                    THEN writeTextFile(pair.accessToken)
                  ELSE disk[p]]
    /\ Accessed("persistTokensToDisk", i, written)
    /\ UNCHANGED <<tokenStorage, program>>

\* clearTokensOnDisk
StoreClearTokens(i) ==
    LET ps == {tokenPaths(i).accessPath, tokenPaths(i).refreshPath} IN
    /\ disk' = [p \in Paths |-> IF p \in ps THEN deleteFileIfExists(disk[p]) ELSE disk[p]]
    /\ Accessed("clearTokensOnDisk", i, ps)
    /\ UNCHANGED <<tokenStorage, program>>

\* readDeviceCodeState
StoreReadState(i) ==
    /\ Accessed("readDeviceCodeState", i, {tokenPaths(i).statePath})
    /\ UNCHANGED <<disk, tokenStorage, program>>

\* Mutant: each flow is kept in a file of its own.
StorePersistState_PerFlow(i, st) ==
    LET sp == IF st.deviceCode = DC(1) THEN tokenPaths(i).statePath
              ELSE pathJoin(tokenPaths(i).dir, Str("flow.json")) IN
    /\ disk' = [disk EXCEPT ![sp] = persistDeviceCodeState(st)]
    /\ Accessed("persistDeviceCodeState", i, {sp})
    /\ UNCHANGED <<tokenStorage, program>>

\* persistDeviceCodeState
StorePersistState(i, st) ==
    LET sp == tokenPaths(i).statePath IN
    /\ disk' = [disk EXCEPT ![sp] = persistDeviceCodeState(st)]
    /\ Accessed("persistDeviceCodeState", i, {sp})
    /\ UNCHANGED <<tokenStorage, program>>

\* clearDeviceCodeState
StoreClearState(i) ==
    LET sp == tokenPaths(i).statePath IN
    /\ disk' = [disk EXCEPT ![sp] = deleteFileIfExists(disk[sp])]
    /\ Accessed("clearDeviceCodeState", i, {sp})
    /\ UNCHANGED <<tokenStorage, program>>

\* Two authenticators are constructed over an empty file system.
InitStorage ==
    /\ now = 0
    /\ accessFile = None
    /\ refreshFile = None
    /\ stateFile = None
    /\ nextRT = 2
    /\ nextFlow = 2
    /\ pc = "idle"
    /\ NoCall
    /\ rotated = {}
    /\ crashed = NoCrash
    /\ probe = NoProbe
    /\ clientId = ClientId
    /\ lastOutcome = NoResult
    /\ NoCalendar
    /\ disk = [p \in Paths |-> None]
    /\ tokenStorage \in [Authenticators -> StorageConfigs]
    /\ access = NoAccess

NextStorage ==
    \/ \E i \in Authenticators : StoreReadTokens(i)
    \/ \E i \in Authenticators : \E pair \in StoredPairs : StorePersistTokens(i, pair)
    \/ \E i \in Authenticators : StoreClearTokens(i)
    \/ \E i \in Authenticators : StoreReadState(i)
    \/ \E i \in Authenticators : \E st \in StoredStates : StorePersistState(i, st)
    \/ \E i \in Authenticators : StoreClearState(i)

SpecStorage == InitStorage /\ [][NextStorage]_vars

-----------------------------------------------------------------------------
(* The pure functions on their own *)

\* Inputs of isLikelyValidAccessToken: every kind of string, and expiries
\* on both sides of the skew.
ProbeExps == {-1, 0} \cup ((SkewSeconds - 1)..(SkewSeconds + MaxExpAhead + 1))
ProbeTokens ==
    {Jwt(p, 0) : p \in {"nodot", "garbled", "null", "noexp"}}
        \cup {Jwt("strexp", e) : e \in ProbeExps}
        \cup {Jwt("exp", e) : e \in ProbeExps}

\* Inputs of checkDeviceCodeResult: a stored flow and a parsed response.
ProbeStates ==
    {DeviceCodeState(DC(1), UC(1), Uri(1), None, Num(i), toISOString(ClockStep)) :
        i \in {2, DefaultInterval}}
\* Inputs of startDeviceCodeLogin: the interval of the response absent, zero,
\* negative, positive, or a string.
ProbeIntervals == {None, Num(0), Num(0 - 1), Num(2), JsonString(2)}
ProbeStartResponses ==
    {StartResponse(1, None, i, l) : i \in ProbeIntervals, l \in 1..(MaxLifetime + 1)}
ProbeInputs ==
    {[fn |-> "isLikelyValidAccessToken", token |-> t, done |-> FALSE,
      out |-> FALSE] : t \in ProbeTokens}
        \cup {[fn |-> "checkDeviceCodeResult", resp |-> r, state |-> st,
               done |-> FALSE, out |-> None] :
                    r \in TokenResponses({RT(1)}), st \in ProbeStates}
        \cup {[fn |-> "startDeviceCodeLogin", resp |-> r, done |-> FALSE,
               out |-> None] : r \in ProbeStartResponses}

InitPure ==
    /\ now \in ClockValues
    /\ accessFile = None
    /\ refreshFile = None
    /\ stateFile = None
    /\ nextRT = 2
    /\ nextFlow = 2
    /\ pc = "idle"
    /\ NoCall
    /\ rotated = {}
    /\ crashed = NoCrash
    /\ probe \in ProbeInputs
    /\ clientId = ClientId
    /\ lastOutcome = NoResult
    /\ NoCalendar
    /\ NoStorage

\* isLikelyValidAccessToken(token) is called.
CallIsLikelyValidAccessToken ==
    /\ probe.fn = "isLikelyValidAccessToken"
    /\ ~probe.done
    /\ probe' = [probe EXCEPT !.done = TRUE,
                              !.out = isLikelyValidAccessToken(probe.token, now)]
    /\ UNCHANGED <<now, files, provider, pc, locals, result, sent, pre, rotated,
                   crashed, config, caller, calendar, storage>>

\* checkDeviceCodeResult has parsed the response to its poll.
CallCheckDeviceCodeResult ==
    /\ probe.fn = "checkDeviceCodeResult"
    /\ ~probe.done
    /\ probe' = [probe EXCEPT !.done = TRUE,
                              !.out = checkDeviceCodeResult(probe.resp, probe.state)]
    /\ UNCHANGED <<now, files, provider, pc, locals, result, sent, pre, rotated,
                   crashed, config, caller, calendar, storage>>

\* startDeviceCodeLogin has parsed the response to its request and builds
\* the state.
CallStartDeviceCodeLogin ==
    /\ probe.fn = "startDeviceCodeLogin"
    /\ ~probe.done
    /\ probe' = [probe EXCEPT !.done = TRUE, !.out = BuildState(probe.resp, now)]
    /\ UNCHANGED <<now, files, provider, pc, locals, result, sent, pre, rotated,
                   crashed, config, caller, calendar, storage>>

NextPure ==
    \/ CallIsLikelyValidAccessToken
    \/ CallCheckDeviceCodeResult
    \/ CallStartDeviceCodeLogin

SpecPure == InitPure /\ [][NextPure]_vars

-----------------------------------------------------------------------------
(* The file helpers on their own: one path, read, written and deleted in     *)
(* any order.  probe records the last call and, in kept, the value a         *)
(* key-value store would hold under that path.                               *)

\* Values handed to writeTextFile: tokens, the same with whitespace around
\* them, the empty string and a string of whitespace only.
HelperTokens == {RT(n) : n \in 1..MaxRT} \cup AccessTokens
HelperValues ==
    HelperTokens \cup {Padded(v) : v \in HelperTokens} \cup {Empty, Blank}
\* The store's value for a file that was there before the first call.
Unknown == [k |-> "unknown"]
\* What the path can hold at the start.
HelperFiles == {None, Unreadable} \cup {File(v) : v \in HelperValues}

InitHelpers ==
    /\ now = 0
    /\ accessFile \in HelperFiles
    /\ refreshFile = None
    /\ stateFile = None
    /\ nextRT = 2
    /\ nextFlow = 2
    /\ pc = "idle"
    /\ NoCall
    /\ rotated = {}
    /\ crashed = NoCrash
    /\ probe = [fn |-> "none", arg |-> None, before |-> accessFile, out |-> None,
                threw |-> FALSE,
                kept |-> IF accessFile \in {None, Unreadable, File(Blank)}
                           THEN None ELSE Unknown]
    /\ clientId = ClientId
    /\ lastOutcome = NoResult
    /\ NoCalendar
    /\ NoStorage

\* readTextFileIfExists(path) is called.
HelperRead ==
    /\ probe' = [probe EXCEPT !.fn = "readTextFileIfExists", !.arg = None,
                              !.before = accessFile,
                              !.out = readTextFileIfExists(accessFile),
                              !.threw = FALSE]
    /\ UNCHANGED <<now, files, provider, pc, locals, result, sent, pre, rotated,
                   crashed, config, caller, calendar, storage>>

\* writeTextFile(path, value) is called; the rejection of writeFile is not
\* caught.
HelperWrite(value) ==
    /\ accessFile' = IF accessFile = Unreadable THEN accessFile
                     ELSE writeTextFile(value)
    /\ probe' = [probe EXCEPT !.fn = "writeTextFile", !.arg = value,
                              !.before = accessFile, !.out = None,
                              !.threw = (accessFile = Unreadable),
                              !.kept = IF accessFile = Unreadable THEN @ ELSE value]
    /\ UNCHANGED <<now, refreshFile, stateFile, provider, pc, locals, result, sent,
                   pre, rotated, crashed, config, caller, calendar, storage>>

\* deleteFileIfExists(path) is called.
HelperDelete ==
    /\ accessFile' = deleteFileIfExists(accessFile)
    /\ probe' = [probe EXCEPT !.fn = "deleteFileIfExists", !.arg = None,
                              !.before = accessFile, !.out = None,
                              !.threw = FALSE, !.kept = None]
    /\ UNCHANGED <<now, refreshFile, stateFile, provider, pc, locals, result, sent,
                   pre, rotated, crashed, config, caller, calendar, storage>>

NextHelpers ==
    \/ HelperRead
    \/ \E value \in HelperValues : HelperWrite(value)
    \/ HelperDelete

SpecHelpers == InitHelpers /\ [][NextHelpers]_vars

-----------------------------------------------------------------------------
(* Vocabulary of the properties *)

\* The claims' own reading of "usable": the token decodes to a numeric expiry
\* strictly greater than the current time plus 60 seconds.
ExpiryAfterSkew(token, ms) ==
    /\ token # None
    /\ token.k = "jwt"
    /\ token.payload = "exp"
    /\ token.exp * 1000 > ms + 60 * 1000

\* The text of a file, None when there is none.
TextOf(file) == IF file = None THEN None ELSE file.text

\* The pending-flow record a file holds, None when it holds none.
RecordOf(file) ==
    IF file = None THEN None
    ELSE IF file.text.k = "json" THEN file.text.val
    ELSE None

\* The record is a PendingFlowState with device code, user code and expiry.
WellFormed(st) == st # None /\ st.expiresAt # None /\ st.deviceCode # None

RequestsOf(grant) == {i \in 1..Len(sent) : sent[i].grant = grant}
PollsSent == RequestsOf("device_code")
RefreshesSent == RequestsOf("refresh_token")
StartsSent == RequestsOf("none")

\* The running call has come back through the stored-token or refresh path.
ReturnedFromTokenPath ==
    /\ pc = "returned"
    /\ result.kind = "token"
    /\ PollsSent = {}

\* C1: a usable persisted access token is returned as it is, with no request
\* sent and the three records untouched (so a repeated call does the same).
C1_StoredTokenIsReturned ==
    (pc # "idle" /\ ExpiryAfterSkew(TextOf(pre.access), now))
        => /\ pc = "returned"
           /\ result = Returned(pre.access.text)
           /\ sent = <<>>
           /\ Snapshot = pre

C1_Witness ==
    /\ pc = "returned"
    /\ ExpiryAfterSkew(TextOf(pre.access), now)
    /\ result.kind = "token"
    /\ pre.refresh # None
    /\ pre.state # None

\* C2: every access token getValidAccessToken returns has a decoded expiry
\* strictly greater than now + 60 s.
C2_ReturnedTokenIsUsable ==
    (pc = "returned" /\ result.kind = "token") => ExpiryAfterSkew(result.token, now)

\* C3: with nothing persisted, a call sends one request, to the
\* device-authorization endpoint; when that request delivers a response the
\* record built from it is persisted and AuthRequired carries its user code
\* and verification URI, and when it fails nothing is persisted.
C3_FreshCallStartsOneFlow ==
    (pc # "idle" /\ pre = NoSnapshot)
        => /\ \A i \in 1..Len(sent) : sent[i] = DeviceCodeRequest
           /\ Len(sent) <= 1
           /\ pc = "returned" =>
                /\ Len(sent) = 1
                /\ accessFile = None /\ refreshFile = None
                /\ IF startData # None
                     THEN /\ result.kind = "authRequired"
                          /\ result.userCode = startData.user_code
                          /\ result.verificationUri = startData.verification_uri
                          /\ WellFormed(RecordOf(stateFile))
                          /\ RecordOf(stateFile).deviceCode = startData.device_code
                          /\ RecordOf(stateFile).userCode = startData.user_code
                          /\ RecordOf(stateFile).verificationUri = startData.verification_uri
                          /\ RecordOf(stateFile).expiresAt
                                = Iso(now + startData.expires_in * 1000)
                     ELSE result.kind = "error" /\ stateFile = None

C3_Witness ==
    /\ pc = "returned"
    /\ pre = NoSnapshot
    /\ result.kind = "authRequired"
    /\ stateFile # None

\* The call found a well-formed pending flow whose expiry has not passed:
\* it got past the token and refresh states with such a record on disk.
FoundPendingFlow ==
    /\ WellFormed(RecordOf(pre.state))
    /\ RecordOf(pre.state).expiresAt.ms >= now
    /\ pc \in {"pollWriteAccess", "pollWriteRefresh", "pollClearState",
               "clearFailed", "clearExpired", "startFlow", "persistState",
               "returned"}
    /\ ~ReturnedFromTokenPath

\* C4: a call that finds an unexpired pending flow polls the token endpoint
\* exactly once, with the stored device code; no call polls twice.
C4_ExactlyOnePoll ==
    /\ Cardinality(PollsSent) <= 1
    /\ FoundPendingFlow
        => /\ Cardinality(PollsSent) = 1
           /\ \A i \in PollsSent : sent[i] = PollRequest(RecordOf(pre.state).deviceCode)

C4_Witness ==
    /\ FoundPendingFlow
    /\ pc = "returned"
    /\ Cardinality(PollsSent) = 1
    /\ StartsSent # {}

\* The poll of the running call was answered authorization_pending or slow_down.
PollAnsweredPending ==
    /\ data # None
    /\ ~(data.ok /\ data.access_token # None)
    /\ data.error \in {Str("authorization_pending"), Str("slow_down")}

\* C5: a poll answered authorization_pending or slow_down ends the call with
\* AuthRequired carrying the stored record's user code, URIs and expiry; the
\* record stays as it was and no flow is started.
C5_PendingKeepsFlow ==
    (pc # "idle" /\ PollAnsweredPending)
        => /\ pc = "returned"
           /\ result.kind = "authRequired"
           /\ result.userCode = RecordOf(pre.state).userCode
           /\ result.verificationUri = RecordOf(pre.state).verificationUri
           /\ result.verificationUriComplete = RecordOf(pre.state).verificationUriComplete
           /\ result.expiresAt = RecordOf(pre.state).expiresAt
           /\ stateFile = pre.state
           /\ StartsSent = {}
           /\ startData = None

C5_Witness ==
    /\ pc = "returned"
    /\ PollAnsweredPending
    /\ data.error = Str("slow_down")
    /\ WellFormed(RecordOf(stateFile))
    /\ result.kind = "authRequired"


\* The poll of the running call was answered with success and an access token.
PollAnsweredSuccess ==
    /\ data # None
    /\ data.ok
    /\ data.access_token # None

\* C6: after a poll answered with success and an access token, the call
\* returns that token, and when it returns the token (and the refresh token,
\* if the response had one) is on disk and the pending-flow record is gone.
C6_CompletedPollPersistsThenReturns ==
    (pc # "idle" /\ PollAnsweredSuccess)
        => IF pc = "returned"
             THEN /\ result = Returned(data.access_token)
                  /\ TextOf(accessFile) = data.access_token
                  /\ data.refresh_token # None
                        => TextOf(refreshFile) = data.refresh_token
                  /\ stateFile = None
             ELSE result = NoResult

C6_Witness ==
    /\ pc = "returned"
    /\ PollAnsweredSuccess
    /\ data.refresh_token # None
    /\ data.error # None
    /\ pre.access # None
    /\ pre.state # None

\* The response a poll step receives is a terminal one: neither a success
\* with an access token nor authorization_pending / slow_down.
TerminalAnswer(resp) ==
    /\ resp # None
    /\ ~(resp.ok /\ resp.access_token # None)
    /\ resp.error \notin {Str("authorization_pending"), Str("slow_down")}

\* The running call is past a poll that was answered with a terminal error.
AfterFailedPoll ==
    /\ PollsSent # {}
    /\ \/ pc \in {"startFlow", "persistState"}
       \/ pc = "returned" /\ StartsSent # {}

\* C7: a poll answered expired_token, authorization_declined or any other
\* non-pending error makes the call delete the pending-flow record, then
\* send one device-authorization request; when that delivers a response its
\* record is persisted and AuthRequired carries the new user code.  The
\* poll's error is never what the caller gets.
C7_FailedPollRestartsFlow ==
    /\ [][(pc = "poll" /\ TerminalAnswer(data'))
            => (pc' = "clearFailed" /\ result' = NoResult /\ stateFile' = stateFile)]_vars
    /\ [][pc = "clearFailed"
            => (pc' = "startFlow" /\ stateFile' = None /\ sent' = sent)]_vars
    /\ [](AfterFailedPoll
            => /\ pc = "startFlow" => (stateFile = None /\ StartsSent = {})
               /\ pc = "persistState" => (stateFile = None /\ Cardinality(StartsSent) = 1)
               /\ pc = "returned" =>
                    /\ Cardinality(StartsSent) = 1
                    /\ IF startData # None
                         THEN /\ result.kind = "authRequired"
                              /\ result.userCode = startData.user_code
                              /\ WellFormed(RecordOf(stateFile))
                              /\ RecordOf(stateFile).deviceCode = startData.device_code
                              /\ RecordOf(stateFile).userCode = startData.user_code
                         ELSE /\ result.kind = "error"
                              /\ result.msg \notin ErrorCodes \cup {Str("unknown_error")}
                              /\ stateFile = None)

C7_Witness ==
    /\ pc = "returned"
    /\ AfterFailedPoll
    /\ result.kind = "authRequired"
    /\ WellFormed(RecordOf(pre.state))
    /\ RecordOf(stateFile) # RecordOf(pre.state)

\* The call found a well-formed pending flow whose expiry has passed.
FoundExpiredFlow ==
    /\ WellFormed(RecordOf(pre.state))
    /\ RecordOf(pre.state).expiresAt.ms < now
    /\ pc \in {"poll", "pollWriteAccess", "pollWriteRefresh", "pollClearState",
               "clearFailed", "clearExpired", "startFlow", "persistState",
               "returned"}
    /\ ~ReturnedFromTokenPath

\* C8: a pending-flow record whose expiry has passed is deleted without a
\* poll; the call then sends one device-authorization request, and
\* AuthRequired carries the user code and expiry of the new flow, never
\* those of the expired record.
C8_ExpiredFlowIsReplaced ==
    FoundExpiredFlow
        => /\ PollsSent = {}
           /\ pc \in {"clearExpired", "startFlow", "persistState", "returned"}
           /\ pc \in {"startFlow", "persistState"} => stateFile = None
           /\ pc = "returned" =>
                /\ Cardinality(StartsSent) = 1
                /\ IF startData # None
                     THEN /\ result.kind = "authRequired"
                          /\ result.userCode = startData.user_code
                          /\ result.userCode # RecordOf(pre.state).userCode
                          /\ result.expiresAt = Iso(now + startData.expires_in * 1000)
                          /\ RecordOf(stateFile).deviceCode = startData.device_code
                          /\ RecordOf(stateFile).expiresAt = result.expiresAt
                     ELSE result.kind = "error" /\ stateFile = None

C8_Witness ==
    /\ FoundExpiredFlow
    /\ pc = "returned"
    /\ result.kind = "authRequired"

\* The last refresh request of the running call was answered with success
\* and an access token that is usable.
RefreshAnsweredUsable ==
    /\ refreshData # None
    /\ refreshData.ok
    /\ ExpiryAfterSkew(refreshData.access_token, now)

\* C9: when a refresh request is answered with a usable access token, the
\* call returns it; the access-token record then holds it and the
\* refresh-token record holds the response's refresh token, or the one that
\* was sent if the response had none; only refresh requests were sent.
C9_RefreshReturnsNewToken ==
    (pc = "returned" /\ RefreshAnsweredUsable)
        => /\ result = Returned(refreshData.access_token)
           /\ TextOf(accessFile) = refreshData.access_token
           /\ TextOf(refreshFile) =
                IF refreshData.refresh_token # None THEN refreshData.refresh_token
                ELSE sent[Len(sent)].arg
           /\ PollsSent = {} /\ StartsSent = {}
           /\ ~ExpiryAfterSkew(TextOf(pre.access), now)
           /\ sent[1] = RefreshRequest(TextOf(pre.refresh))

C9_Witness ==
    /\ pc = "returned"
    /\ RefreshAnsweredUsable
    /\ refreshData.refresh_token # None
    /\ refreshData.refresh_token # TextOf(pre.refresh)
    /\ pre.access # None

C9_WitnessNoRotation ==
    /\ pc = "returned"
    /\ RefreshAnsweredUsable
    /\ refreshData.refresh_token = None
    /\ refreshFile = pre.refresh

\* C10: a refresh token that a rotated one has replaced on disk is never
\* written to the refresh-token record again and never sent in a request
\* again, in this call or a later one.
C10_RotatedTokenNeverReused ==
    [][/\ \A t \in rotated : refreshFile' # File(t)
       /\ \A i \in (Len(sent) + 1)..Len(sent') : sent'[i].arg \notin rotated]_vars

C10_Witness ==
    /\ RT(1) \in rotated
    /\ Cardinality(RefreshesSent) = 2
    /\ pc = "clearTokens"
    /\ lastError # None

\* The positions of a call inside the refresh state.
RefreshPhase == {"refresh", "persistAccess", "persistRefresh", "clearTokens"}

\* The running call has left the refresh state without a usable token and
\* has not yet got an answer to a poll.
AfterFailedRefresh ==
    /\ RefreshesSent # {}
    /\ pc \in {"readState", "clearExpired", "poll", "clearFailed", "startFlow",
               "persistState"}

\* C11: with a refresh token persisted, a refresh that fails (a rejected or
\* failed request, or no usable token after the attempts) ends in the
\* deletion of the access-token and refresh-token records; only then is the
\* pending-flow record read, and the same call goes on to poll or to start a
\* flow.  The call never ends inside the refresh state with an error.
C11_FailedRefreshFallsThrough ==
    /\ [][(pc = "refresh" /\ lastError' # None)
            => (pc' = "clearTokens" /\ result' = NoResult)]_vars
    /\ [][pc = "clearTokens"
            => (pc' = "readState" /\ accessFile' = None /\ refreshFile' = None
                /\ result' = NoResult)]_vars
    /\ [][(pc \in RefreshPhase /\ pc' = "returned") => result'.kind = "token"]_vars
    /\ [](AfterFailedRefresh
            => (pre.refresh # None /\ accessFile = None /\ refreshFile = None))
    /\ []((pc = "returned" /\ RefreshesSent # {} /\ result.kind # "token")
            => (PollsSent # {} \/ StartsSent # {}))

C11_Witness ==
    /\ pc = "poll"
    /\ RefreshesSent # {}
    /\ pre.access # None
    /\ accessFile = None
    /\ refreshFile = None

C11_WitnessNewFlow ==
    /\ pc = "returned"
    /\ RefreshesSent # {}
    /\ PollsSent = {}
    /\ result.kind = "authRequired"
    /\ pre.refresh # None
    /\ refreshFile = None

\* This step sends a refresh request.
SendsRefresh ==
    /\ Len(sent') = Len(sent) + 1
    /\ sent'[Len(sent')].grant = "refresh_token"

\* C12: a call sends at most 2 refresh requests.  The second is sent only
\* when the first was answered with success and an access token that is not
\* usable, and it carries the refresh token of that answer (the token first
\* sent, when the answer had none).  Once a refresh request has ended in an
\* error the call leaves the refresh state and cannot come back to it.
C12_AtMostTwoRefreshes ==
    /\ [](Cardinality(RefreshesSent) <= 2)
    /\ [][(SendsRefresh /\ RefreshesSent # {})
            => /\ Len(sent) = 1
               /\ lastError = None
               /\ refreshData # None
               /\ refreshData.ok
               /\ refreshData.access_token # None
               /\ ~ExpiryAfterSkew(refreshData.access_token, now)
               /\ sent'[2].arg = IF refreshData.refresh_token # None
                                   THEN refreshData.refresh_token
                                   ELSE sent[1].arg]_vars
    /\ [][SendsRefresh => (pc = "refresh" /\ lastError = None)]_vars
    /\ [](lastError # None => pc = "clearTokens")
    /\ [][pc \notin {"idle", "persistRefresh"} => pc' # "refresh"]_vars

C12_Witness ==
    /\ pc = "returned"
    /\ Cardinality(RefreshesSent) = 2
    /\ sent[2].arg # sent[1].arg
    /\ result.kind = "token"

C12_WitnessError ==
    /\ pc = "clearTokens"
    /\ Cardinality(RefreshesSent) = 1
    /\ lastError # None
    /\ refreshData # None

\* C13: the four states are tried in the order stored token, refresh,
\* pending flow, new flow.  No request is sent when the stored access token
\* is usable; no poll and no device-authorization request when a refresh
\* was answered with a usable token; no device-authorization request when
\* the poll was answered with completion or pending; and in the requests of
\* one call every refresh precedes the poll, which precedes the
\* device-authorization request, the poll being sent only once the refresh
\* state has been left.
C13_StatesInOrder ==
    /\ (pc # "idle" /\ ExpiryAfterSkew(TextOf(pre.access), now)) => sent = <<>>
    /\ (pc # "idle" /\ RefreshAnsweredUsable)
            => (PollsSent = {} /\ StartsSent = {})
    /\ (pc # "idle" /\ (PollAnsweredSuccess \/ PollAnsweredPending))
            => StartsSent = {}
    /\ \A i \in RefreshesSent : \A j \in PollsSent \cup StartsSent : i < j
    /\ \A i \in PollsSent : \A j \in StartsSent : i < j
    /\ pc \in RefreshPhase => (PollsSent = {} /\ StartsSent = {})
    /\ pc = "poll" => StartsSent = {}

C13_Witness ==
    /\ pc = "returned"
    /\ Cardinality(RefreshesSent) = 2
    /\ PollsSent # {}
    /\ StartsSent # {}
    /\ pre.access # None

C13_WitnessCompleted ==
    /\ pc = "returned"
    /\ RefreshesSent # {}
    /\ PollAnsweredSuccess
    /\ result.kind = "token"

\* C14: a call sends at most two requests to the identity provider, whatever
\* is persisted (here: no pending-flow record or a well-formed one) and
\* whatever the provider answers.
C14_AtMostTwoRequests ==
    (pre.state = None \/ WellFormed(RecordOf(pre.state))) => Len(sent) <= 2

\* C14, amended: a call sends at most four requests: at most two refresh
\* requests, then at most one poll, then at most one device-authorization
\* request.
C14_AtMostFourRequests ==
    /\ Len(sent) <= 4
    /\ Cardinality(RefreshesSent) <= 2
    /\ Cardinality(PollsSent) <= 1
    /\ Cardinality(StartsSent) <= 1
    /\ Len(sent) = Cardinality(RefreshesSent) + Cardinality(PollsSent)
                        + Cardinality(StartsSent)

C14_Witness ==
    /\ pc = "returned"
    /\ Len(sent) = 4
    /\ result.kind = "authRequired"

\* The call now returning is the first since a crash that took a delivered
\* access token with it, and that token is still usable.
FirstCallAfterCrash ==
    /\ pc = "returned"
    /\ crashed.token # None
    /\ ExpiryAfterSkew(crashed.token, now)

\* C15: when the process dies anywhere between the provider's answer that
\* completes a poll or refresh and the caller receiving the result, the
\* next call returns a usable access token and starts no flow.
C15_CrashLosesNoCredential ==
    FirstCallAfterCrash
        => /\ result.kind = "token"
           /\ ExpiryAfterSkew(result.token, now)
           /\ StartsSent = {}

\* C15, amended: when the process dies after the write of the delivered
\* access token and before the caller receives the result, the next call
\* returns that token, while it is usable, without sending a request.
C15_WrittenTokenSurvivesCrash ==
    (FirstCallAfterCrash /\ crashed.written)
        => /\ result = Returned(crashed.token)
           /\ sent = <<>>

C15_Witness ==
    /\ FirstCallAfterCrash
    /\ crashed.written
    /\ result = Returned(crashed.token)
    /\ stateFile # None

\* This step is a request to the identity provider that brings no response:
\* the fetch of a refresh, of a poll or of a flow start is rejected.
RequestFails ==
    \/ pc = "refresh" /\ lastError' = Str("fetch failed")
    \/ pc = "poll" /\ data' = None
    \/ pc = "startFlow" /\ startData' = None

\* C16: a request to the identity provider that fails in transport, be it a
\* refresh, a poll or a flow start, ends the call with that error: the
\* error reaches the caller and the call sends nothing more.
C16_NetworkErrorPropagates ==
    [][RequestFails => (pc' = "returned" /\ result'.kind = "error")]_vars

\* The call found a pending-flow file that does not hold a PendingFlowState
\* with device code, user code and expiry.
FoundMalformedRecord ==
    /\ pc # "idle"
    /\ pre.state # None
    /\ ~WellFormed(RecordOf(pre.state))

\* C17: a malformed pending-flow record is treated as an absent one: no
\* poll is sent for it, the call does not end with an error before it has
\* asked for a new flow, and once past the token states it starts a flow.
C17_MalformedRecordIsAbsent ==
    FoundMalformedRecord
        => /\ PollsSent = {}
           /\ pc \notin {"poll", "clearFailed", "clearExpired"}
           /\ (pc = "returned" /\ result.kind = "error") => StartsSent # {}

\* isLikelyValidAccessToken has been applied to a token.
ValidityProbed == probe.fn = "isLikelyValidAccessToken" /\ probe.done

\* C18: isLikelyValidAccessToken(token) is true exactly when the middle
\* segment of the token decodes to an object with a numeric exp strictly
\* greater than now + 60 s; it is false for an exp at or below now + 60 s,
\* for an exp that is absent or not a number, and for a token that cannot be
\* split, decoded or parsed; it yields a boolean for every string.
C18_UsableIffExpiryAfterSkew ==
    ValidityProbed
        => /\ probe.out \in BOOLEAN
           /\ probe.out = ExpiryAfterSkew(probe.token, now)
           /\ probe.token.payload # "exp" => probe.out = FALSE
           /\ (probe.token.payload = "exp"
                    /\ probe.token.exp <= nowSeconds(now) + SkewSeconds)
                => probe.out = FALSE

C18_Witness ==
    /\ ValidityProbed
    /\ probe.out = TRUE
    /\ now > 0
    /\ probe.token.exp = nowSeconds(now) + SkewSeconds + 1

C18_WitnessBoundary ==
    /\ ValidityProbed
    /\ probe.out = FALSE
    /\ probe.token.payload = "exp"
    /\ probe.token.exp = nowSeconds(now) + SkewSeconds

C18_WitnessNotANumber ==
    /\ ValidityProbed
    /\ probe.out = FALSE
    /\ probe.token.payload = "strexp"
    /\ probe.token.exp > nowSeconds(now) + SkewSeconds

\* checkDeviceCodeResult has mapped a response.
PollMapped == probe.fn = "checkDeviceCodeResult" /\ probe.done

\* C19: checkDeviceCodeResult maps a success response with an access token
\* to completed whatever its error field; otherwise authorization_pending to
\* pending with the stored interval, slow_down to pending with the stored
\* interval plus 5, expired_token to expired, authorization_declined to
\* declined, and anything else, a missing error code included, to error.
C19_PollResponseMapping ==
    PollMapped
        => LET r == probe.resp
               o == probe.out
               i == probe.state.intervalSeconds
           IN  IF r.ok /\ r.access_token # None
                 THEN o.status = "completed" /\ o.accessToken = r.access_token
               ELSE IF r.error = Str("authorization_pending")
                 THEN o.status = "pending" /\ o.nextPollInSeconds = i
               ELSE IF r.error = Str("slow_down")
                 THEN o.status = "pending" /\ o.nextPollInSeconds = Num(i.v + 5)
               ELSE IF r.error = Str("expired_token") THEN o.status = "expired"
               ELSE IF r.error = Str("authorization_declined")
                 THEN o.status = "declined"
               ELSE o.status = "error"

C19_Witness ==
    /\ PollMapped
    /\ probe.resp.ok
    /\ probe.resp.access_token # None
    /\ probe.resp.error = Str("authorization_pending")
    /\ probe.out.status = "completed"

C19_WitnessSlowDown ==
    /\ PollMapped
    /\ probe.resp.error = Str("slow_down")
    /\ probe.out.status = "pending"
    /\ probe.out.nextPollInSeconds = Num(DefaultInterval + SlowDownExtra)

C19_WitnessUnknown ==
    /\ PollMapped
    /\ ~probe.resp.ok
    /\ probe.resp.access_token # None
    /\ probe.resp.error = None
    /\ probe.out.status = "error"

\* This step writes the pending-flow record.
WritesState == stateFile' # stateFile /\ stateFile' # None

\* C20: a flow start that succeeds sends exactly one request to the
\* device-authorization endpoint and writes the pending-flow record exactly
\* once: the write is the step that follows the response, nothing is
\* returned before it, and when AuthRequired is raised the record is on disk.
C20_OneRequestOneWrite ==
    /\ [][WritesState
            => /\ pc = "persistState"
               /\ pc' = "returned"
               /\ sent' = sent
               /\ RecordOf(stateFile').deviceCode = startData.device_code]_vars
    /\ [][pc = "persistState" => WritesState]_vars
    /\ [](pc = "persistState"
            => /\ result = NoResult
               /\ startData # None
               /\ Cardinality(StartsSent) = 1
               /\ RecordOf(stateFile) = None
                     \/ RecordOf(stateFile).deviceCode # startData.device_code)
    /\ []((pc = "returned" /\ startData # None)
            => /\ Cardinality(StartsSent) = 1
               /\ sent[Len(sent)] = DeviceCodeRequest
               /\ result.kind = "authRequired"
               /\ WellFormed(RecordOf(stateFile))
               /\ RecordOf(stateFile).deviceCode = startData.device_code
               /\ RecordOf(stateFile).userCode = result.userCode)

C20_Witness ==
    /\ pc = "returned"
    /\ startData # None
    /\ result.kind = "authRequired"
    /\ pre.state # None
    /\ RecordOf(stateFile) # RecordOf(pre.state)

\* This step receives a non-success response from the device-authorization
\* endpoint.
StartRefused == pc = "startFlow" /\ startResponse' # None /\ ~startResponse'.ok

\* C21: a non-success response of the device-authorization endpoint ends the
\* call with an error (not AuthRequired) whose message is the provider's
\* error text: error.message, else the serialised error, else the status
\* line.  No pending-flow record is written and the request is not repeated.
C21_RefusedStartIsSurfaced ==
    /\ [][StartRefused
            => /\ pc' = "returned"
               /\ result'.kind = "error"
               /\ stateFile' = stateFile
               /\ LET body == startResponse'.body IN
                  result'.msg =
                    IF body.k = "graphError" THEN body.message
                    ELSE IF body.k = "oauthError"
                      THEN [k |-> "quoted", s |-> body.error.s]
                    ELSE [k |-> "statusLine", status |-> startResponse'.status]]_vars
    /\ []((pc = "returned" /\ startResponse # None /\ ~startResponse.ok)
            => /\ result.kind = "error"
               /\ RecordOf(stateFile) = None
               /\ Cardinality(StartsSent) = 1
               /\ sent[Len(sent)] = DeviceCodeRequest
               /\ startData = None)

C21_Witness ==
    /\ pc = "returned"
    /\ startResponse # None
    /\ ~startResponse.ok
    /\ startResponse.body.k = "oauthError"
    /\ result.kind = "error"
    /\ pre.state # None

\* C22: an instance without a client id fails every call with a
\* configuration error before any request is sent to the identity provider.
C22_MissingClientIdFailsFast ==
    clientId = None
        => /\ sent = <<>>
           /\ pc \in {"idle", "returned"}
           /\ pc = "returned" => result.kind = "error"

\* C23: a call that starts a flow successfully ends with AuthRequired right
\* after the record is written: it returns no token and sends nothing after
\* the device-authorization request.  Every call whose requests all complete
\* comes to an end, with a token, AuthRequired or an error.
C23_CallsTerminate ==
    /\ [][pc = "persistState"
            => (pc' = "returned" /\ result'.kind = "authRequired" /\ sent' = sent)]_vars
    /\ []((pc = "returned" /\ startData # None)
            => (result.kind = "authRequired" /\ sent[Len(sent)] = DeviceCodeRequest))
    /\ [](pc = "returned" => result.kind \in {"token", "authRequired", "error"})
    /\ [](pc # "returned" => result = NoResult)
    /\ (pc # "idle") ~> (pc = "returned")

C23_Witness ==
    /\ pc = "returned"
    /\ startData # None
    /\ result.kind = "authRequired"
    /\ RefreshesSent # {}
    /\ PollsSent # {}

\* The caller has caught an AuthRequired that shows a user code.
AwaitingUser == lastOutcome.kind = "authRequired" /\ lastOutcome.userCode # None

\* C24: after AuthRequired the flow shown to the user is the stored one; the next call
\* polls the token endpoint with the stored device code, and when the answer
\* carries the tokens it returns that access token.  A caller that keeps
\* retrying while the provider in the end confirms the flow within its
\* lifetime is eventually given a token.
C24_RetryRecovers ==
    /\ []((AwaitingUser /\ pc = "idle")
            => /\ WellFormed(RecordOf(stateFile))
               /\ DeviceCodeAuthRequiredError(RecordOf(stateFile)) = lastOutcome
               /\ ~isDeviceCodeStateExpired(RecordOf(stateFile), now))
    /\ []((AwaitingUser /\ pc = "returned")
            => /\ sent # <<>>
               /\ sent[1] = PollRequest(RecordOf(pre.state).deviceCode)
               /\ DeviceCodeAuthRequiredError(RecordOf(pre.state)) = lastOutcome)
    /\ []((AwaitingUser /\ pc = "returned" /\ PollAnsweredSuccess)
            => /\ result = Returned(data.access_token)
               /\ TextOf(accessFile) = data.access_token
               /\ Len(sent) = 1)
    /\ AwaitingUser ~> (pc = "returned" /\ result.kind = "token")

C24_Witness ==
    /\ AwaitingUser
    /\ pc = "returned"
    /\ PollAnsweredSuccess
    /\ result.kind = "token"
    /\ now > 0

\* startDeviceCodeLogin has built the state from the response.
StateBuilt == probe.fn = "startDeviceCodeLogin" /\ probe.done

\* C30: the state built by a flow start has the provider's interval when that
\* is a number above zero and 5 when it is absent, zero, negative or not a
\* number; its expiry is the instant of the start plus expires_in seconds.
C30_IntervalAndExpiry ==
    StateBuilt =>
        /\ probe.resp.interval \in {Num(n) : n \in 1..2}
                => probe.out.intervalSeconds = probe.resp.interval
        /\ probe.resp.interval \in {None, Num(0), Num(0 - 1), JsonString(2)}
                => probe.out.intervalSeconds = Num(5)
        /\ probe.out.expiresAt.k = "iso"
        /\ probe.out.expiresAt.ms = now + probe.resp.expires_in * 1000

C30_Witness ==
    /\ StateBuilt
    /\ probe.resp.interval = Num(0 - 1)
    /\ probe.out.intervalSeconds = Num(5)
    /\ now > 0

\* An entry point of the calendar authenticator has run to its end.
CalendarReturned(fn) == pc = "returned" /\ entry.fn = fn

\* C25: what an entry point returns depends on the stored records, the time
\* and the provider's answers only: the instance that has a call history
\* returns what a newly constructed instance returns on the same storage at
\* the same instant for the same answer.
C25_NoInstanceMemory ==
    CalendarReturned("checkDeviceCodeResult") => result = twin

\* C28: startDeviceCodeLogin of the calendar authenticator starts a new flow
\* each time: it sends one device-authorization request and nothing else,
\* reads and writes no stored record, and when the provider answers returns
\* the user code, verification URI, interval and expiry of that answer and
\* remembers its device code, whatever is stored or was started before.
C28_StartIsAlwaysFresh ==
    CalendarReturned("startDeviceCodeLogin") =>
        /\ sent = <<DeviceCodeRequest>>
        /\ Snapshot = pre
        /\ startData = None => result.kind = "error"
        /\ startData # None =>
              /\ result.kind = "value"
              /\ result.value.deviceCode = DC(nextFlow - 1)
              /\ result.value.deviceCode = startData.device_code
              /\ result.value.userCode = startData.user_code
              /\ result.value.verificationUri = startData.verification_uri
              /\ result.value.verificationUriComplete = startData.verification_uri_complete
              /\ result.value.intervalSeconds = IntervalOf(startData)
              /\ result.value.expiresAt = Iso(now + startData.expires_in * MsPerSecond)
              /\ lastDeviceCode.deviceCode = startData.device_code

\* A second flow is started while tokens are stored.
C28_Witness ==
    /\ CalendarReturned("startDeviceCodeLogin")
    /\ startData # None
    /\ result.value.deviceCode = DC(3)
    /\ accessFile # None
    /\ refreshFile # None

\* The device code checkDeviceCodeResult polls with.
PolledDeviceCode == EffectiveDeviceCode(entry.deviceCode, lastDeviceCode)
\* checkDeviceCodeResult has returned completed.
CheckCompleted ==
    /\ CalendarReturned("checkDeviceCodeResult")
    /\ result.kind = "value"
    /\ result.value.status = "completed"
\* The call that follows a completed checkDeviceCodeResult is a
\* getValidAccessToken, made while the token is usable.
FollowsCompletedCheck ==
    /\ CalendarReturned("getValidAccessToken")
    /\ lastOutcome # NoResult
    /\ isLikelyValidAccessToken(lastOutcome.value.accessToken, now)

\* C29 as stated: every checkDeviceCodeResult call sends exactly one token
\* request.
C29_ExactlyOnePoll ==
    CalendarReturned("checkDeviceCodeResult") =>
        (Len(sent) = 1 /\ sent[1].grant = "device_code")

\* C29: checkDeviceCodeResult sends at most one token request per call: one
\* poll when a device code is passed or remembered, none (status error)
\* otherwise.  It returns pending, completed, declined, expired or error, or
\* fails when the request itself fails.  When it returns completed the tokens
\* are on disk, and a getValidAccessToken that follows while the token is
\* usable returns it without a request.
C29_AtMostOnePoll ==
    /\ CalendarReturned("checkDeviceCodeResult") =>
          /\ Len(sent) <= 1
          /\ (sent = <<>>) <=> (PolledDeviceCode = None)
          /\ sent # <<>> => sent[1] = PollRequest(PolledDeviceCode)
          /\ PolledDeviceCode = None => result = Resolved(MissingDeviceCode)
          /\ result.kind \in {"value", "error"}
          /\ result.kind = "value" =>
                result.value.status \in
                    {"pending", "completed", "declined", "expired", "error"}
          /\ result.kind = "error" => (data = None /\ Len(sent) = 1)
    /\ CheckCompleted =>
          /\ result.value.accessToken = data.access_token
          /\ TextOf(accessFile) = data.access_token
          /\ data.refresh_token # None => TextOf(refreshFile) = data.refresh_token
    /\ FollowsCompletedCheck =>
          /\ result = Returned(lastOutcome.value.accessToken)
          /\ sent = <<>>

C29_Witness ==
    /\ FollowsCompletedCheck
    /\ result.kind = "token"
    /\ now > 0
    /\ refreshFile # None

\* The file holds a pending-flow record.
HoldsPendingFlow(file) == file # None /\ file.text.k = "json"
\* The pending-flow records in the directory of authenticator i.
PendingFlowsIn(i) ==
    {p \in Paths : p.dir = tokenPaths(i).dir /\ HoldsPendingFlow(disk[p])}
\* The three records of the storage location of authenticator i.
LocationOf(i) ==
    {tokenPaths(i).accessPath, tokenPaths(i).refreshPath, tokenPaths(i).statePath}
\* Both authenticators are configured alike.
OneLocation == tokenPaths("a") = tokenPaths("b")
\* A flow start has stored its record.
StateStored == access.op = "persistDeviceCodeState"

\* C26: a storage location holds at most one pending-flow record, and so
\* does the directory of authenticators configured alike; the record stored
\* by a flow start takes the place of the one stored before.
C26_AtMostOnePendingFlow ==
    /\ \A i \in Authenticators :
          Cardinality({p \in LocationOf(i) : HoldsPendingFlow(disk[p])}) <= 1
    /\ OneLocation => Cardinality(PendingFlowsIn("a")) <= 1
    /\ StateStored =>
          /\ access.opened = {tokenPaths(access.self).statePath}
          /\ HoldsPendingFlow(disk[tokenPaths(access.self).statePath])
          /\ {p \in LocationOf(access.self) : HoldsPendingFlow(disk[p])}
                = {tokenPaths(access.self).statePath}

\* A flow start has replaced the record of another flow, stored by the other
\* authenticator of the same location.
C26_Witness ==
    /\ OneLocation
    /\ StateStored
    /\ access.self = "b"
    /\ \E p \in access.opened :
          /\ HoldsPendingFlow(access.before[p])
          /\ access.before[p] # disk[p]
          /\ access.before[p].text.val.deviceCode = DC(1)
    /\ Cardinality(PendingFlowsIn("b")) = 1

\* The directory an authenticator is configured with.
DirectoryOf(i) == FieldOr(tokenStorage[i], "dir", DEFAULT_SESSION_DIR)
\* The directories of the two authenticators differ.
SeparateDirs == DirectoryOf("a") # DirectoryOf("b")

\* C27: an operation of one authenticator leaves every file of the other's
\* directory as it was and opens no path of that directory, when the two
\* directories differ.
C27_DirectoriesAreIsolated ==
    /\ [][SeparateDirs =>
            \A p \in Paths :
                p.dir # DirectoryOf(access'.self) => disk'[p] = disk[p]]_vars
    /\ [](SeparateDirs =>
            \A p \in access.opened : p.dir = DirectoryOf(access.self))

\* Both directories hold records, not the same ones, and the last operation
\* wrote in the second.
C27_Witness ==
    /\ SeparateDirs
    /\ access.self = "b"
    /\ access.op = "persistTokensToDisk"
    /\ \A i \in Authenticators :
          /\ disk[tokenPaths(i).statePath] # None
          /\ disk[tokenPaths(i).accessPath] # None
    /\ disk[tokenPaths("a").statePath] # disk[tokenPaths("b").statePath]

-----------------------------------------------------------------------------
\* C31: whenever getValidAccessToken returns a token, the access-token
\* record persisted at that moment holds exactly the returned token, on the
\* stored-token path, the refresh path and the completed-poll path alike.
C31_ReturnedTokenIsPersisted ==
    (pc = "returned" /\ result.kind = "token")
        => readTextFileIfExists(accessFile) = result.token

\* A call returns the token of a flow the user has just completed, which is
\* not the token the call found in the file.
C31_Witness ==
    /\ pc = "returned"
    /\ result.kind = "token"
    /\ PollsSent # {}
    /\ pre.access # accessFile

\* A call returns a token obtained by a refresh.
C31_WitnessRefresh ==
    /\ pc = "returned"
    /\ result.kind = "token"
    /\ RefreshesSent # {}
    /\ PollsSent = {}
    /\ pre.access # accessFile

-----------------------------------------------------------------------------
\* C32: whenever getValidAccessToken fails with AuthRequired, a pending-flow
\* record is persisted at that moment, and its user code, verification URI,
\* complete URI and expiry are equal to the fields the error carries.
C32_AuthRequiredMatchesRecord ==
    (pc = "returned" /\ result.kind = "authRequired") =>
        LET st == readDeviceCodeState IN
        /\ st # None
        /\ result.userCode = st.userCode
        /\ result.verificationUri = st.verificationUri
        /\ result.verificationUriComplete = st.verificationUriComplete
        /\ result.expiresAt = st.expiresAt

\* A call has started a flow whose response carried a complete URI and has
\* thrown AuthRequired for it.
C32_Witness ==
    /\ pc = "returned"
    /\ result.kind = "authRequired"
    /\ StartsSent # {}
    /\ result.verificationUriComplete # None

\* A call has polled the stored flow, found it still pending and thrown
\* AuthRequired for it.
C32_WitnessPending ==
    /\ pc = "returned"
    /\ result.kind = "authRequired"
    /\ PollsSent # {}
    /\ result.userCode # None

-----------------------------------------------------------------------------
\* The access-token file holds a token that getValidAccessToken would return
\* as it is at the clock's present instant.
UsableAccessTokenStored ==
    /\ readTextFileIfExists(accessFile) # None
    /\ isLikelyValidAccessToken(readTextFileIfExists(accessFile), now)

\* No call is running, or the running call has come to its end.
BetweenCalls == pc \in {"idle", "returned"}

\* C33: starting from empty storage, after any sequence of completed,
\* sequential getValidAccessToken calls with arbitrary provider responses and
\* advancing time: while a pending-flow record is persisted, no refresh token
\* is persisted and no usable access token is persisted.
C33_PendingFlowExcludesTokens ==
    (BetweenCalls /\ readDeviceCodeState # None) =>
        /\ readTextFileIfExists(refreshFile) = None
        /\ ~UsableAccessTokenStored

\* A call that found a refresh token, failed to refresh with it and started
\* a new flow has ended: the record is there, and tokens had been stored
\* before.
C33_Witness ==
    /\ pc = "returned"
    /\ result.kind = "authRequired"
    /\ pre.refresh # None
    /\ RefreshesSent # {}
    /\ StartsSent # {}
    /\ readDeviceCodeState # None

\* A record is persisted next to an access token that is no longer usable.
C33_WitnessStaleToken ==
    /\ pc = "idle"
    /\ readDeviceCodeState # None
    /\ accessFile # None

-----------------------------------------------------------------------------
\* The refresh loop of the running call has run out: both attempts were
\* answered with tokens, both access tokens were found not usable, and the
\* tokens of the second answer are in the files.
TwoUnusableRefreshes ==
    /\ pc = "clearTokens"
    /\ attempt = MaxAttempts
    /\ lastError = None

\* The running call has ended with DeviceCodeAuthRequiredError.
EndedInAuthRequired == pc = "returned" /\ result.kind = "authRequired"

\* The ways a call that left the refresh state without a token can end: with
\* AuthRequired for a persisted flow, with the error of the poll or of the
\* device-authorization request, or with the token of a stored flow that the
\* poll found completed.
EndedAfterFallThrough ==
    /\ pc = "returned"
    /\ \/ /\ result.kind = "authRequired"
          /\ accessFile = None
          /\ refreshFile = None
          /\ readDeviceCodeState # None
       \/ /\ result.kind = "error"
          /\ accessFile = None
          /\ refreshFile = None
          /\ sent[Len(sent)].grant \in {"device_code", "none"}
       \/ /\ result.kind = "token"
          /\ PollsSent # {}
          /\ result.token = data.access_token

\* C34 (as stated): a call whose two refresh attempts both succeed with an
\* access token that is not usable ends in AuthRequired.
C34_EndsInAuthRequired == TwoUnusableRefreshes ~> EndedInAuthRequired

\* C34 (amended): when both refresh attempts succeed with an access token
\* that is not usable, the tokens those attempts persisted are deleted and
\* the call goes on to the pending-flow state; it returns no token of those
\* refreshes, and ends in AuthRequired unless the poll of a stored flow
\* completes or the poll or the device-authorization request fails.
C34_UnusableRefreshesFallThrough ==
    /\ [][TwoUnusableRefreshes
            => (accessFile' = None /\ refreshFile' = None /\ pc' = "readState"
                /\ sent' = sent)]_vars
    /\ TwoUnusableRefreshes ~> EndedAfterFallThrough

\* Both attempts have succeeded, the first with a rotated refresh token, and
\* the tokens of the last answer are in the files, about to be deleted.
C34_Witness ==
    /\ TwoUnusableRefreshes
    /\ Cardinality(RefreshesSent) = MaxAttempts
    /\ rotated # {}
    /\ refreshFile # pre.refresh
    /\ accessFile # None
    /\ ~isLikelyValidAccessToken(readTextFileIfExists(accessFile), now)

-----------------------------------------------------------------------------
\* C35: a call that returns through the stored-token path or the refresh
\* path neither reads nor modifies the pending-flow record: the record file
\* is what it was when the call began, and the call's state variable was
\* never assigned from it.
C35_TokenPathsLeaveRecordAlone ==
    ReturnedFromTokenPath =>
        /\ stateFile = pre.state
        /\ state = None
        /\ StartsSent = {}

\* A call returns a refreshed token while a pending-flow record is stored.
C35_Witness ==
    /\ ReturnedFromTokenPath
    /\ RefreshesSent # {}
    /\ readDeviceCodeState # None

\* A call returns the stored token while a pending-flow record is stored.
C35_WitnessStored ==
    /\ ReturnedFromTokenPath
    /\ sent = <<>>
    /\ readDeviceCodeState # None

-----------------------------------------------------------------------------
\* The error that tells the caller to run the device-code login.
LoginNeeded ==
    Thrown(Str("No valid access token found. Call startDeviceCodeLogin(), then checkDeviceCodeResult() until completed."))

\* The calendar client's getValidAccessToken found neither a usable access
\* token nor a refresh token.
FoundNoCredential ==
    /\ CalendarReturned("getValidAccessToken")
    /\ ~(tokens.accessToken # None /\ isLikelyValidAccessToken(tokens.accessToken, now))
    /\ tokens.refreshToken = None

\* The calendar client's getValidAccessToken tried to refresh and came back
\* without a token.
CalendarRefreshFailed ==
    /\ CalendarReturned("getValidAccessToken")
    /\ RefreshesSent # {}
    /\ result.kind # "token"

C36_WitnessNoCredential ==
    /\ FoundNoCredential
    /\ tokens.accessToken # None

\* Both refresh attempts returned tokens that are not usable.
C36_WitnessExhausted ==
    /\ CalendarRefreshFailed
    /\ result.msg.k = "refreshFailed"
    /\ result.msg.cause = Str("Unknown refresh error")

-----------------------------------------------------------------------------
\* checkDeviceCodeResult of the calendar authenticator was called without a
\* device code and has come to its end.
CheckedWithoutCode ==
    /\ CalendarReturned("checkDeviceCodeResult")
    /\ entry.deviceCode = None

\* The instance has started a flow: the provider has issued a flow after
\* those of earlier processes.
StartedByInstance == nextFlow > 2

\* C37: in the calendar client's authenticator, checkDeviceCodeResult called
\* without a device code before any startDeviceCodeLogin of the instance
\* returns status error and sends no request; called without a device code
\* after a startDeviceCodeLogin it sends one poll, with the device code of
\* the most recent start.
C37_PollsMostRecentStart ==
    CheckedWithoutCode =>
        IF ~StartedByInstance
          THEN /\ result.kind = "value"
               /\ result.value.status = "error"
               /\ sent = <<>>
          ELSE sent = <<PollRequest(DC(nextFlow - 1))>>

\* Two flows were started, and a check without a device code has polled with
\* the device code of the second.
C37_Witness ==
    /\ CheckedWithoutCode
    /\ nextFlow = 4
    /\ sent = <<PollRequest(DC(3))>>

\* A check without a device code on a new instance has returned the error.
C37_WitnessNoStart ==
    /\ CheckedWithoutCode
    /\ ~StartedByInstance
    /\ result = Resolved(MissingDeviceCode)

-----------------------------------------------------------------------------
\* The last helper called was readTextFileIfExists.
LastRead == probe.fn = "readTextFileIfExists"
\* v is a string that neither begins nor ends with whitespace.
Unpadded(v) == v \notin {None, Unknown} /\ v.k \notin {"padded", "blank"}
\* Deleting a record that is not there succeeds and changes nothing.
DeleteOfAbsentIsNoOp ==
    (probe.fn = "deleteFileIfExists" /\ probe.before = None)
        => (accessFile = None /\ ~probe.threw)

C38_WitnessDeleted ==
    /\ LastRead
    /\ probe.kept = None
    /\ probe.before = None

\* A record of whitespace only has been read as absent.
C38_WitnessBlank ==
    /\ LastRead
    /\ probe.before = File(Blank)
    /\ probe.out = None

====
